---- MODULE Spec2Model ----
(***************************************************************************)
(* Order Book Trading Game server (tutorial_1/server/server.js): the       *)
(* in-memory gameState, the trading logic (tighten-or-trade admission,     *)
(* price-time matching, average-cost position ledger, settlement), the     *)
(* turn scheduler and the HTTP request handlers that drive them.           *)
(*                                                                         *)
(* A request is received (its body read), handled by its handler in one    *)
(* synchronous step, and its response delivered.  JavaScript numbers are   *)
(* modelled exactly: integers as integers, and the quotients the ledger    *)
(* computes (totalCost / quantity) as normalised fractions <<num, den>>.   *)
(* Timestamps (Date.now()) are left out: no code path reads them.          *)
(***************************************************************************)
EXTENDS Integers, Sequences, FiniteSets, TLC

\* ------------------------------------------------------------------ bounds
\* accepted operations explored from the initial state
MaxSteps == 3
ExampleSteps == 3
TurnSteps == 3
TradingSteps == 4
ConcurrentSteps == 2
EventSteps == 2
LedgerSteps == 4
RoundSteps == 3
\* order ids a privileged cancelOrder may name
MaxOrders == 2
MaxPrice == 2
MaxSize == 1
ExampleMaxSize == 2
MaxCount == 1

\* ------------------------------------------------------- values and numbers
\* JavaScript null / a present value.
Null == <<>>
Some(x) == <<x>>
Val(o) == o[1]
\* turnOrder[i] for an index outside the array.
Undefined == "undefined"

Abs(x) == IF x < 0 THEN -x ELSE x
Min(a, b) == IF a < b THEN a ELSE b

RECURSIVE GCD(_, _)
GCD(a, b) == IF b = 0 THEN a ELSE GCD(b, a % b)

\* Fractions <<num, den>>, den > 0, in lowest terms.
Rat(n, d) == LET g == GCD(Abs(n), d) IN <<n \div g, d \div g>>
R(n) == <<n, 1>>
RatAdd(a, b) == Rat(a[1] * b[2] + b[1] * a[2], a[2] * b[2])
RatNeg(a) == <<-a[1], a[2]>>
RatSub(a, b) == RatAdd(a, RatNeg(b))
RatMul(a, b) == Rat(a[1] * b[1], a[2] * b[2])
\* a / b for b # 0
RatDiv(a, b) == IF b[1] > 0 THEN Rat(a[1] * b[2], a[2] * b[1])
                ELSE Rat(-(a[1] * b[2]), a[2] * (-b[1]))
RatIsInt(a) == a[2] = 1
RatLt(a, b) == a[1] * b[2] < b[1] * a[2]
RatLe(a, b) == a[1] * b[2] <= b[1] * a[2]

\* obj[key] = val on a JavaScript object modelled as a function.
Put(f, k, v) == [x \in DOMAIN f \cup {k} |-> IF x = k THEN v ELSE f[x]]
Has(f, k) == k \in DOMAIN f

RECURSIVE SeqFilterIdx(_, _, _)
\* helper of Filter: the elements s[i..] whose index is in keep
SeqFilterIdx(s, keep, i) ==
  IF i > Len(s) THEN <<>>
  ELSE IF i \in keep THEN <<s[i]>> \o SeqFilterIdx(s, keep, i + 1)
  ELSE SeqFilterIdx(s, keep, i + 1)

\* ------------------------------------------------------------------- state
\* gameState, version: the server's globals.  req, resp: the request whose
\* handler ran last and the response it wrote, until that response has gone
\* out.  inflight: the requests whose handler is suspended in await
\* readBody(req).  sseClients: the open /api/events streams; written[c]: the
\* events the last handler wrote to stream c.
VARIABLES gameState, version, req, resp, inflight, sseClients, written
vars == <<gameState, version, req, resp, inflight, sseClients, written>>

EmptyGame ==
  [players |-> <<>>, orders |-> <<>>, trades |-> <<>>, positions |-> <<>>,
   orderIdCounter |-> 1, settledPrice |-> Null, turnOrder |-> <<>>,
   currentTurnIndex |-> -1, priceHistory |-> <<>>]

InitialVersion == 1

NoReq == [op |-> "none"]
NoResp == [code |-> 0]

\* ------------------------------------------------------------ trading logic
\* AskBefore with the price comparison turned round: highest ask first
AskBeforeDescending(a, b) == a.price > b.price \/ (a.price = b.price /\ a.id < b.id)

\* the sort comparators of getBestBidAsk / matchOrders / executeMarketOrder:
\* a before b when lower price first (asks) or higher price first (bids),
\* then lower id first
AskBefore(a, b) == a.price < b.price \/ (a.price = b.price /\ a.id < b.id)
BidBefore(a, b) == a.price > b.price \/ (a.price = b.price /\ a.id < b.id)

RECURSIVE SortAsks(_)
SortAsks(s) ==
  IF s = <<>> THEN <<>>
  ELSE LET i == CHOOSE i \in DOMAIN s : \A j \in DOMAIN s \ {i} : AskBefore(s[i], s[j])
       IN <<s[i]>> \o SortAsks(SeqFilterIdx(s, DOMAIN s \ {i}, 1))

RECURSIVE SortBids(_)
SortBids(s) ==
  IF s = <<>> THEN <<>>
  ELSE LET i == CHOOSE i \in DOMAIN s : \A j \in DOMAIN s \ {i} : BidBefore(s[i], s[j])
       IN <<s[i]>> \o SortBids(SeqFilterIdx(s, DOMAIN s \ {i}, 1))

\* gameState.orders.filter(o => o.side === side)
OrdersOfSide(g, side) ==
  SeqFilterIdx(g.orders, {i \in DOMAIN g.orders : g.orders[i].side = side}, 1)

getBestBidAsk(g) ==
  LET bids == SortBids(OrdersOfSide(g, "bid"))
      asks == SortAsks(OrdersOfSide(g, "ask"))
  IN [bestBid |-> IF Len(bids) > 0 THEN Some(bids[1].price) ELSE Null,
      bestAsk |-> IF Len(asks) > 0 THEN Some(asks[1].price) ELSE Null]

getMidPrice(g) ==
  LET b == getBestBidAsk(g)
  IN IF b.bestBid # Null /\ b.bestAsk # Null
     THEN Some(Rat(Val(b.bestBid) + Val(b.bestAsk), 2))
     ELSE Null

turnActive(g) == Len(g.turnOrder) > 0 /\ g.currentTurnIndex >= 0

currentPlayer(g) ==
  IF g.currentTurnIndex + 1 \in DOMAIN g.turnOrder
  THEN g.turnOrder[g.currentTurnIndex + 1]
  ELSE Undefined

capturePriceHistory(g) ==
  IF turnActive(g)
  THEN [g EXCEPT !.priceHistory =
          Append(@, [turn |-> Len(g.priceHistory) + 1, midPrice |-> getMidPrice(g)])]
  ELSE g

\* canPlaceOrder whose empty-side shortcut asks for a wholly empty book
canPlaceOrderEmptyBook(g, side, price) ==
  LET b == getBestBidAsk(g)
  IN IF side = "bid"
     THEN IF b.bestBid = Null /\ b.bestAsk = Null THEN TRUE
          ELSE IF b.bestBid # Null /\ price > Val(b.bestBid) THEN TRUE
          ELSE IF b.bestAsk # Null /\ price >= Val(b.bestAsk) THEN TRUE
          ELSE FALSE
     ELSE IF b.bestAsk = Null /\ b.bestBid = Null THEN TRUE
          ELSE IF b.bestAsk # Null /\ price < Val(b.bestAsk) THEN TRUE
          ELSE IF b.bestBid # Null /\ price <= Val(b.bestBid) THEN TRUE
          ELSE FALSE

\* canPlaceOrder letting a bid that only equals the best bid through
canPlaceOrderBidLax(g, side, price) ==
  LET b == getBestBidAsk(g)
  IN IF side = "bid"
     THEN IF b.bestBid = Null THEN TRUE
          ELSE IF price >= Val(b.bestBid) THEN TRUE
          ELSE IF b.bestAsk # Null /\ price >= Val(b.bestAsk) THEN TRUE
          ELSE FALSE
     ELSE IF b.bestAsk = Null THEN TRUE
          ELSE IF price < Val(b.bestAsk) THEN TRUE
          ELSE IF b.bestBid # Null /\ price <= Val(b.bestBid) THEN TRUE
          ELSE FALSE

\* canPlaceOrder letting an ask that only equals the best ask through
canPlaceOrderAskLax(g, side, price) ==
  LET b == getBestBidAsk(g)
  IN IF side = "bid"
     THEN IF b.bestBid = Null THEN TRUE
          ELSE IF price > Val(b.bestBid) THEN TRUE
          ELSE IF b.bestAsk # Null /\ price >= Val(b.bestAsk) THEN TRUE
          ELSE FALSE
     ELSE IF b.bestAsk = Null THEN TRUE
          ELSE IF price <= Val(b.bestAsk) THEN TRUE
          ELSE IF b.bestBid # Null /\ price <= Val(b.bestBid) THEN TRUE
          ELSE FALSE

\* canPlaceOrder without the tighten-or-trade rule: every price may rest
canPlaceOrderAlways(g, side, price) == TRUE

canPlaceOrder(g, side, price) ==
  LET b == getBestBidAsk(g)
  IN IF side = "bid"
     THEN IF b.bestBid = Null THEN TRUE
          ELSE IF price > Val(b.bestBid) THEN TRUE
          ELSE IF b.bestAsk # Null /\ price >= Val(b.bestAsk) THEN TRUE
          ELSE FALSE
     ELSE IF b.bestAsk = Null THEN TRUE
          ELSE IF price < Val(b.bestAsk) THEN TRUE
          ELSE IF b.bestBid # Null /\ price <= Val(b.bestBid) THEN TRUE
          ELSE FALSE

NewPosition == [quantity |-> 0, totalCost |-> R(0), realizedPnL |-> R(0), cash |-> 0]
\* the entry addPlayer creates: no cash field
PlayerPosition == [quantity |-> 0, totalCost |-> R(0), realizedPnL |-> R(0)]

WithCash(pos) ==
  IF "cash" \in DOMAIN pos THEN pos
  ELSE [f \in DOMAIN pos \cup {"cash"} |-> IF f = "cash" THEN 0 ELSE pos[f]]

ensurePosition(g, name) ==
  LET p1 == IF Has(g.positions, name) THEN g.positions ELSE Put(g.positions, name, NewPosition)
  IN [g EXCEPT !.positions = Put(p1, name, WithCash(p1[name]))]

\* BuyPosition booking the contracts bought but not what was paid for them
BuyPositionUnpriced(pos, quantity, price) ==
  [pos EXCEPT !.totalCost = RatAdd(@, R(quantity)),
              !.quantity = @ + quantity]

\* the buying branch of updatePosition (quantity > 0)
BuyPosition(pos, quantity, price) ==
  [pos EXCEPT !.totalCost = RatAdd(@, R(quantity * price)),
              !.quantity = @ + quantity]

\* SellLong releasing the whole cost basis whatever part of the long is sold
SellLongWholeBasis(pos, sellSize, price) ==
  LET avgCost == RatDiv(pos.totalCost, R(pos.quantity))
      closedSize == Min(sellSize, pos.quantity)
      pnl == RatMul(R(closedSize), RatSub(R(price), avgCost))
      closed == [pos EXCEPT !.realizedPnL = RatAdd(@, pnl),
                            !.quantity = @ - closedSize,
                            !.totalCost = R(0)]
      shortSize == sellSize - closedSize
  IN IF sellSize > closedSize
     THEN [closed EXCEPT !.quantity = @ - shortSize,
                         !.totalCost = RatSub(@, R(shortSize * price))]
     ELSE closed

\* the selling branch of updatePosition on a long position (pos.quantity > 0)
SellLong(pos, sellSize, price) ==
  LET avgCost == RatDiv(pos.totalCost, R(pos.quantity))
      closedSize == Min(sellSize, pos.quantity)
      pnl == RatMul(R(closedSize), RatSub(R(price), avgCost))
      closed == [pos EXCEPT !.realizedPnL = RatAdd(@, pnl),
                            !.quantity = @ - closedSize,
                            !.totalCost = RatSub(@, RatMul(R(closedSize), avgCost))]
      shortSize == sellSize - closedSize
  IN IF sellSize > closedSize
     THEN [closed EXCEPT !.quantity = @ - shortSize,
                         !.totalCost = RatSub(@, R(shortSize * price))]
     ELSE closed

\* SellShort with the sign of the quantity update slipped
SellShortSignSlip(pos, sellSize, price) ==
  [pos EXCEPT !.quantity = @ + sellSize,
              !.totalCost = RatSub(@, R(sellSize * price))]

\* the selling branch of updatePosition on a flat or short position
SellShort(pos, sellSize, price) ==
  [pos EXCEPT !.quantity = @ - sellSize,
              !.totalCost = RatSub(@, R(sellSize * price))]

\* updatePosition that moves cash for a purchase only
updatePositionBuyerPays(g, player, quantity, price) ==
  LET g1 == ensurePosition(g, player)
      pos == [g1.positions[player] EXCEPT
                !.cash = IF quantity > 0 THEN @ - quantity * price ELSE @]
      new == IF quantity > 0 THEN BuyPosition(pos, quantity, price)
             ELSE IF pos.quantity > 0 THEN SellLong(pos, Abs(quantity), price)
             ELSE SellShort(pos, Abs(quantity), price)
  IN [g1 EXCEPT !.positions = Put(g1.positions, player, new)]

\* updatePosition that books the trade but moves no cash
updatePositionCashless(g, player, quantity, price) ==
  LET g1 == ensurePosition(g, player)
      pos == g1.positions[player]
      new == IF quantity > 0 THEN BuyPosition(pos, quantity, price)
             ELSE IF pos.quantity > 0 THEN SellLong(pos, Abs(quantity), price)
             ELSE SellShort(pos, Abs(quantity), price)
  IN [g1 EXCEPT !.positions = Put(g1.positions, player, new)]

updatePosition(g, player, quantity, price) ==
  LET g1 == ensurePosition(g, player)
      pos == [g1.positions[player] EXCEPT !.cash = @ - quantity * price]
      new == IF quantity > 0 THEN BuyPosition(pos, quantity, price)
             ELSE IF pos.quantity > 0 THEN SellLong(pos, Abs(quantity), price)
             ELSE SellShort(pos, Abs(quantity), price)
  IN [g1 EXCEPT !.positions = Put(g1.positions, player, new)]

\* MakeTrade pricing a limit order's trades at the incoming order's own price
MakeTradeAtLimit(g, newOrder, order, tradeSize) ==
  [id |-> Len(g.trades) + 1,
   buyer |-> IF newOrder.side = "bid" THEN newOrder.player ELSE order.player,
   seller |-> IF newOrder.side = "bid" THEN order.player ELSE newOrder.player,
   price |-> IF "price" \in DOMAIN newOrder THEN newOrder.price ELSE order.price,
   size |-> tradeSize]

\* one iteration's trade record (matchOrders 194-201, executeMarketOrder 239-246)
MakeTrade(g, newOrder, order, tradeSize) ==
  [id |-> Len(g.trades) + 1,
   buyer |-> IF newOrder.side = "bid" THEN newOrder.player ELSE order.player,
   seller |-> IF newOrder.side = "bid" THEN order.player ELSE newOrder.player,
   price |-> order.price,
   size |-> tradeSize]

\* ReduceOrder that leaves a completely filled order in the book
ReduceOrderKeepFilled(g, order, tradeSize) ==
  LET i == CHOOSE i \in DOMAIN g.orders : g.orders[i].id = order.id
  IN [g EXCEPT !.orders[i].size = @ - tradeSize]

\* order.size -= tradeSize; the order leaves the book at size 0
ReduceOrder(g, order, tradeSize) ==
  LET i == CHOOSE i \in DOMAIN g.orders : g.orders[i].id = order.id
      reduced == [g EXCEPT !.orders[i].size = @ - tradeSize]
  IN IF order.size - tradeSize = 0
     THEN [reduced EXCEPT !.orders =
             SeqFilterIdx(@, {j \in DOMAIN @ : @[j].id # order.id}, 1)]
     ELSE reduced

RECURSIVE walkBook(_, _, _, _, _, _)
\* the for loop over the sorted opposite side, shared by matchOrders and
\* executeMarketOrder (the two loops are the same code)
walkBook(g, newOrder, opposite, i, trades, remaining) ==
  IF i > Len(opposite) \/ remaining <= 0
  THEN [g |-> g, trades |-> trades, remaining |-> remaining]
  ELSE LET order == opposite[i]
           tradeSize == Min(remaining, order.size)
           trade == MakeTrade(g, newOrder, order, tradeSize)
           g1 == [g EXCEPT !.trades = Append(@, trade)]
           g2 == updatePosition(g1, trade.buyer, tradeSize, trade.price)
           g3 == updatePosition(g2, trade.seller, -tradeSize, trade.price)
           g4 == ReduceOrder(g3, order, tradeSize)
       IN walkBook(g4, newOrder, opposite, i + 1, Append(trades, trade),
                   remaining - tradeSize)

\* Compatible with the price filter made strict: an order priced exactly at the
\* opposite best no longer matches it
CompatibleStrict(g, newOrder) ==
  LET other == SeqFilterIdx(g.orders,
                 {i \in DOMAIN g.orders : g.orders[i].side # newOrder.side}, 1)
      priced == SeqFilterIdx(other,
                 {i \in DOMAIN other :
                    IF newOrder.side = "bid" THEN other[i].price < newOrder.price
                    ELSE other[i].price > newOrder.price}, 1)
  IN IF newOrder.side = "bid" THEN SortAsks(priced) ELSE SortBids(priced)

\* the resting orders a new order may trade with, best first
Compatible(g, newOrder) ==
  LET other == SeqFilterIdx(g.orders,
                 {i \in DOMAIN g.orders : g.orders[i].side # newOrder.side}, 1)
      priced == SeqFilterIdx(other,
                 {i \in DOMAIN other :
                    IF newOrder.side = "bid" THEN other[i].price <= newOrder.price
                    ELSE other[i].price >= newOrder.price}, 1)
  IN IF newOrder.side = "bid" THEN SortAsks(priced) ELSE SortBids(priced)

\* matchOrders that rests the incoming order at its original size, not at what
\* is left of it
matchOrdersFullRest(g, newOrder) ==
  LET w == walkBook(g, newOrder, Compatible(g, newOrder), 1, <<>>, newOrder.size)
  IN [g |-> IF w.remaining > 0
            THEN [w.g EXCEPT !.orders = Append(@, newOrder)]
            ELSE w.g,
      trades |-> w.trades]

matchOrders(g, newOrder) ==
  LET w == walkBook(g, newOrder, Compatible(g, newOrder), 1, <<>>, newOrder.size)
  IN [g |-> IF w.remaining > 0
            THEN [w.g EXCEPT !.orders = Append(@, [newOrder EXCEPT !.size = w.remaining])]
            ELSE w.g,
      trades |-> w.trades]

\* every resting order of the other side, best first
MarketOpposite(g, side) ==
  LET other == SeqFilterIdx(g.orders,
                 {i \in DOMAIN g.orders : g.orders[i].side # side}, 1)
  IN IF side = "bid" THEN SortAsks(other) ELSE SortBids(other)

executeMarketOrder(g, playerName, side, size) ==
  walkBook(g, [player |-> playerName, side |-> side], MarketOpposite(g, side),
           1, <<>>, size)

RECURSIVE SumCountsRevealed(_, _)
\* SumCounts that leaves out the participants whose count is not revealed
SumCountsRevealed(players, names) ==
  IF names = {} THEN 0
  ELSE LET n == CHOOSE n \in names : TRUE
       IN (IF players[n].revealed THEN players[n].siblingCount ELSE 0)
          + SumCountsRevealed(players, names \ {n})

RECURSIVE SumCounts(_, _)
SumCounts(players, names) ==
  IF names = {} THEN 0
  ELSE LET n == CHOOSE n \in names : TRUE
       IN players[n].siblingCount + SumCounts(players, names \ {n})

totalSiblings(g) == SumCounts(g.players, DOMAIN g.players)

\* SettlePosition that credits the position but leaves it open
SettlePositionKeepOpen(pos, total) ==
  IF pos.quantity # 0
  THEN LET avgPrice == IF pos.quantity > 0
                       THEN RatDiv(pos.totalCost, R(pos.quantity))
                       ELSE RatDiv(RatNeg(pos.totalCost), R(Abs(pos.quantity)))
           unrealizedPnL == RatMul(R(pos.quantity), RatSub(R(total), avgPrice))
           settlementCash == pos.quantity * total
       IN [pos EXCEPT !.realizedPnL = RatAdd(@, unrealizedPnL),
                      !.cash = @ + settlementCash]
  ELSE pos

\* SettlePosition with the sign of a short position's average price dropped
SettlePositionUnsigned(pos, total) ==
  IF pos.quantity # 0
  THEN LET avgPrice == IF pos.quantity > 0
                       THEN RatDiv(pos.totalCost, R(pos.quantity))
                       ELSE RatDiv(pos.totalCost, R(Abs(pos.quantity)))
           unrealizedPnL == RatMul(R(pos.quantity), RatSub(R(total), avgPrice))
           settlementCash == pos.quantity * total
       IN [pos EXCEPT !.realizedPnL = RatAdd(@, unrealizedPnL),
                      !.cash = @ + settlementCash,
                      !.quantity = 0,
                      !.totalCost = R(0)]
  ELSE pos

\* SettlePosition that books the P&L but pays no settlement cash
SettlePositionUnpaid(pos, total) ==
  IF pos.quantity # 0
  THEN LET avgPrice == IF pos.quantity > 0
                       THEN RatDiv(pos.totalCost, R(pos.quantity))
                       ELSE RatDiv(RatNeg(pos.totalCost), R(Abs(pos.quantity)))
           unrealizedPnL == RatMul(R(pos.quantity), RatSub(R(total), avgPrice))
       IN [pos EXCEPT !.realizedPnL = RatAdd(@, unrealizedPnL),
                      !.quantity = 0,
                      !.totalCost = R(0)]
  ELSE pos

\* SettlePosition that pays settlement cash to long positions only
SettlePositionLongsPaid(pos, total) ==
  IF pos.quantity # 0
  THEN LET avgPrice == IF pos.quantity > 0
                       THEN RatDiv(pos.totalCost, R(pos.quantity))
                       ELSE RatDiv(RatNeg(pos.totalCost), R(Abs(pos.quantity)))
           unrealizedPnL == RatMul(R(pos.quantity), RatSub(R(total), avgPrice))
           settlementCash == IF pos.quantity > 0 THEN pos.quantity * total ELSE 0
       IN [pos EXCEPT !.realizedPnL = RatAdd(@, unrealizedPnL),
                      !.cash = @ + settlementCash,
                      !.quantity = 0,
                      !.totalCost = R(0)]
  ELSE pos

\* the loop body of settleContract for one position
SettlePosition(pos, total) ==
  IF pos.quantity # 0
  THEN LET avgPrice == IF pos.quantity > 0
                       THEN RatDiv(pos.totalCost, R(pos.quantity))
                       ELSE RatDiv(RatNeg(pos.totalCost), R(Abs(pos.quantity)))
           unrealizedPnL == RatMul(R(pos.quantity), RatSub(R(total), avgPrice))
           settlementCash == pos.quantity * total
       IN [pos EXCEPT !.realizedPnL = RatAdd(@, unrealizedPnL),
                      !.cash = @ + settlementCash,
                      !.quantity = 0,
                      !.totalCost = R(0)]
  ELSE pos

\* settleContract without the check on the sum: a contract worth 0 settles at 0
settleContractUnguarded(g) ==
  LET total == totalSiblings(g)
  IN [g |-> [g EXCEPT !.settledPrice = Some(total),
                      !.positions = [n \in DOMAIN @ |-> SettlePosition(@[n], total)]],
      error |-> Null, settledPrice |-> Some(total)]

settleContract(g) ==
  LET total == totalSiblings(g)
  IN IF total = 0
     THEN [g |-> g, error |-> Some("No players added yet"), settledPrice |-> Null]
     ELSE [g |-> [g EXCEPT !.settledPrice = Some(total),
                           !.positions = [n \in DOMAIN @ |-> SettlePosition(@[n], total)]],
           error |-> Null, settledPrice |-> Some(total)]

\* --------------------------------------------------------- request handlers
\* A handler's outcome: the game state and version it leaves and the response
\* it sends (sendJSON / unauthorized).
Out(g, v, code, body) ==
  [g |-> g, version |-> v, resp |-> [code |-> code, body |-> body], events |-> <<>>]

\* broadcastState(), called by a handler whose outcome so far is o: the event
\* it writes to every SSE client carries the version and gameState of then
broadcastState(o) ==
  [o EXCEPT !.events = Append(@, [type |-> "state", version |-> o.version, state |-> o.g])]

Unauthorized(g, v) == Out(g, v, 401, [error |-> "Unauthorized - invalid admin token"])
BadJSON(g, v) == Out(g, v, 400, [error |-> "Bad JSON"])

addPlayer(g, v, r) ==
  IF ~r.json THEN BadJSON(g, v)
  ELSE IF r.name = "" \/ r.count < 0 THEN Out(g, v, 400, [error |-> "Invalid input"])
  ELSE LET g1 == [g EXCEPT !.players =
                    Put(@, r.name, [siblingCount |-> r.count, revealed |-> FALSE])]
           g2 == IF Has(g1.positions, r.name) THEN g1
                 ELSE [g1 EXCEPT !.positions = Put(@, r.name, PlayerPosition)]
       IN broadcastState(Out(g2, v + 1, 200, [ok |-> TRUE]))

toggleReveal(g, v, r) ==
  IF ~r.auth THEN Unauthorized(g, v)
  ELSE IF ~r.json THEN BadJSON(g, v)
  ELSE IF r.name = "" \/ ~Has(g.players, r.name)
  THEN Out(g, v, 400, [error |-> "Invalid player"])
  ELSE broadcastState(Out([g EXCEPT !.players[r.name].revealed = ~@], v + 1, 200, [ok |-> TRUE]))

\* CommitOrder that moves the turn on without wrapping round the turn order
CommitOrderUnwrapped(g, v, trades) ==
  LET g1 == IF turnActive(g)
            THEN capturePriceHistory([g EXCEPT !.currentTurnIndex = @ + 1])
            ELSE g
  IN broadcastState(Out(g1, v + 1, 200, [ok |-> TRUE, trades |-> trades]))

\* the tail every accepted submitOrder shares: turn advance, version++, 200
CommitOrder(g, v, trades) ==
  LET g1 == IF turnActive(g)
            THEN capturePriceHistory(
                   [g EXCEPT !.currentTurnIndex = (@ + 1) % Len(g.turnOrder)])
            ELSE g
  IN broadcastState(Out(g1, v + 1, 200, [ok |-> TRUE, trades |-> trades]))

\* SubmitMarket that turns down every market order it cannot fill completely
SubmitMarketAllOrNothing(g1, v, r, s) ==
  LET result == executeMarketOrder(g1, r.playerName, r.side, s)
  IN IF result.remaining > 0
     THEN Out(result.g, v, 400,
              [error |-> "Insufficient liquidity - market order could not be filled"])
     ELSE CommitOrder(result.g, v, result.trades)

\* SubmitMarket that rests the unfilled remainder of a partly filled market
\* order as a limit order at the last traded price
SubmitMarketResting(g1, v, r, s) ==
  LET result == executeMarketOrder(g1, r.playerName, r.side, s)
      filled == s - result.remaining
  IN IF result.remaining > 0 /\ filled = 0
     THEN Out(result.g, v, 400,
              [error |-> "Insufficient liquidity - market order could not be filled"])
     ELSE IF result.remaining > 0
     THEN CommitOrder(
            [result.g EXCEPT
               !.orders = Append(@, [id |-> result.g.orderIdCounter,
                                     player |-> r.playerName, side |-> r.side,
                                     price |-> result.trades[Len(result.trades)].price,
                                     size |-> result.remaining]),
               !.orderIdCounter = @ + 1], v, result.trades)
     ELSE CommitOrder(result.g, v, result.trades)

\* the market branch of submitOrder, after ensurePosition
SubmitMarket(g1, v, r, s) ==
  LET result == executeMarketOrder(g1, r.playerName, r.side, s)
      filled == s - result.remaining
  IN IF result.remaining > 0 /\ filled = 0
     THEN Out(result.g, v, 400,
              [error |-> "Insufficient liquidity - market order could not be filled"])
     ELSE CommitOrder(result.g, v, result.trades)

\* the limit branch of submitOrder, after ensurePosition
SubmitLimit(g1, v, r, s) ==
  LET p == r.price
  IN IF p[1] <= 0 THEN Out(g1, v, 400, [error |-> "Invalid price"])
     ELSE IF ~RatIsInt(p) THEN Out(g1, v, 400, [error |-> "Price must be an integer"])
     ELSE IF ~canPlaceOrder(g1, r.side, p[1])
     THEN LET b == getBestBidAsk(g1)
          IN Out(g1, v, 400, [error |-> "Tighten or trade",
                              bestBid |-> b.bestBid, bestAsk |-> b.bestAsk])
     ELSE LET order == [id |-> g1.orderIdCounter, player |-> r.playerName,
                        side |-> r.side, price |-> p[1], size |-> s]
              m == matchOrders([g1 EXCEPT !.orderIdCounter = @ + 1], order)
          IN CommitOrder(m.g, v, m.trades)

submitOrder(g, v, r) ==
  IF ~r.json THEN BadJSON(g, v)
  ELSE IF r.playerName = "" \/ r.side \notin {"bid", "ask"}
  THEN Out(g, v, 400, [error |-> "Invalid side/name"])
  ELSE IF ~RatIsInt(r.size) \/ r.size[1] <= 0
  THEN Out(g, v, 400, [error |-> "Invalid size"])
  ELSE IF turnActive(g) /\ r.playerName # currentPlayer(g)
  THEN Out(g, v, 400, [error |-> "Not your turn", currentPlayer |-> currentPlayer(g)])
  ELSE LET g1 == ensurePosition(g, r.playerName)
       IN IF r.orderType = "market"
          THEN SubmitMarket(g1, v, r, r.size[1])
          ELSE SubmitLimit(g1, v, r, r.size[1])

\* cancelOrders without the turn check
cancelOrdersUngated(g, v, r) ==
  IF ~r.json THEN BadJSON(g, v)
  ELSE IF r.playerName = "" THEN Out(g, v, 400, [error |-> "Missing playerName"])
  ELSE LET before == Len(g.orders)
           g1 == [g EXCEPT !.orders =
                    SeqFilterIdx(@, {i \in DOMAIN @ : @[i].player # r.playerName}, 1)]
           cancelled == before - Len(g1.orders)
           g2 == IF cancelled > 0 /\ turnActive(g1)
                 THEN capturePriceHistory(
                        [g1 EXCEPT !.currentTurnIndex = (@ + 1) % Len(g1.turnOrder)])
                 ELSE g1
       IN broadcastState(Out(g2, v + 1, 200, [ok |-> TRUE, cancelled |-> cancelled]))

\* cancelOrders that, like the privileged cancelOrder, bumps the version only
\* when an order was removed
cancelOrdersQuiet(g, v, r) ==
  IF ~r.json THEN BadJSON(g, v)
  ELSE IF r.playerName = "" THEN Out(g, v, 400, [error |-> "Missing playerName"])
  ELSE IF turnActive(g) /\ r.playerName # currentPlayer(g)
  THEN Out(g, v, 400, [error |-> "Not your turn", currentPlayer |-> currentPlayer(g)])
  ELSE LET before == Len(g.orders)
           g1 == [g EXCEPT !.orders =
                    SeqFilterIdx(@, {i \in DOMAIN @ : @[i].player # r.playerName}, 1)]
           cancelled == before - Len(g1.orders)
           g2 == IF cancelled > 0 /\ turnActive(g1)
                 THEN capturePriceHistory(
                        [g1 EXCEPT !.currentTurnIndex = (@ + 1) % Len(g1.turnOrder)])
                 ELSE g1
       IN broadcastState(Out(g2, IF cancelled > 0 THEN v + 1 ELSE v, 200,
              [ok |-> TRUE, cancelled |-> cancelled]))

\* cancelOrders that withdraws only the participant's oldest resting order
cancelOrdersOldest(g, v, r) ==
  IF ~r.json THEN BadJSON(g, v)
  ELSE IF r.playerName = "" THEN Out(g, v, 400, [error |-> "Missing playerName"])
  ELSE IF turnActive(g) /\ r.playerName # currentPlayer(g)
  THEN Out(g, v, 400, [error |-> "Not your turn", currentPlayer |-> currentPlayer(g)])
  ELSE LET before == Len(g.orders)
           own == {i \in DOMAIN g.orders : g.orders[i].player = r.playerName}
           g1 == [g EXCEPT !.orders =
                    SeqFilterIdx(@, {i \in DOMAIN @ : i \notin own \/ \E j \in own : j < i}, 1)]
           cancelled == before - Len(g1.orders)
           g2 == IF cancelled > 0 /\ turnActive(g1)
                 THEN capturePriceHistory(
                        [g1 EXCEPT !.currentTurnIndex = (@ + 1) % Len(g1.turnOrder)])
                 ELSE g1
       IN broadcastState(Out(g2, v + 1, 200, [ok |-> TRUE, cancelled |-> cancelled]))

cancelOrders(g, v, r) ==
  IF ~r.json THEN BadJSON(g, v)
  ELSE IF r.playerName = "" THEN Out(g, v, 400, [error |-> "Missing playerName"])
  ELSE IF turnActive(g) /\ r.playerName # currentPlayer(g)
  THEN Out(g, v, 400, [error |-> "Not your turn", currentPlayer |-> currentPlayer(g)])
  ELSE LET before == Len(g.orders)
           g1 == [g EXCEPT !.orders =
                    SeqFilterIdx(@, {i \in DOMAIN @ : @[i].player # r.playerName}, 1)]
           cancelled == before - Len(g1.orders)
           g2 == IF cancelled > 0 /\ turnActive(g1)
                 THEN capturePriceHistory(
                        [g1 EXCEPT !.currentTurnIndex = (@ + 1) % Len(g1.turnOrder)])
                 ELSE g1
       IN broadcastState(Out(g2, v + 1, 200, [ok |-> TRUE, cancelled |-> cancelled]))

\* cancelOrder that does not call broadcastState() after removing the order
cancelOrderSilent(g, v, r) ==
  IF ~r.auth THEN Unauthorized(g, v)
  ELSE IF ~r.json THEN BadJSON(g, v)
  ELSE IF r.orderId = 0 THEN Out(g, v, 400, [error |-> "Missing orderId"])
  ELSE LET before == Len(g.orders)
           g1 == [g EXCEPT !.orders =
                    SeqFilterIdx(@, {i \in DOMAIN @ : @[i].id # r.orderId}, 1)]
           cancelled == before - Len(g1.orders)
       IN IF cancelled = 0 THEN Out(g1, v, 404, [error |-> "Order not found"])
          ELSE Out(g1, v + 1, 200, [ok |-> TRUE, cancelled |-> cancelled])

\* cancelOrder that uses up a turn as cancelOrders does
cancelOrderTakesTurn(g, v, r) ==
  IF ~r.auth THEN Unauthorized(g, v)
  ELSE IF ~r.json THEN BadJSON(g, v)
  ELSE IF r.orderId = 0 THEN Out(g, v, 400, [error |-> "Missing orderId"])
  ELSE LET before == Len(g.orders)
           g1 == [g EXCEPT !.orders =
                    SeqFilterIdx(@, {i \in DOMAIN @ : @[i].id # r.orderId}, 1)]
           cancelled == before - Len(g1.orders)
           g2 == IF turnActive(g1)
                 THEN capturePriceHistory(
                        [g1 EXCEPT !.currentTurnIndex = (@ + 1) % Len(g1.turnOrder)])
                 ELSE g1
       IN IF cancelled = 0 THEN Out(g1, v, 404, [error |-> "Order not found"])
          ELSE broadcastState(Out(g2, v + 1, 200, [ok |-> TRUE, cancelled |-> cancelled]))

cancelOrder(g, v, r) ==
  IF ~r.auth THEN Unauthorized(g, v)
  ELSE IF ~r.json THEN BadJSON(g, v)
  ELSE IF r.orderId = 0 THEN Out(g, v, 400, [error |-> "Missing orderId"])
  ELSE LET before == Len(g.orders)
           g1 == [g EXCEPT !.orders =
                    SeqFilterIdx(@, {i \in DOMAIN @ : @[i].id # r.orderId}, 1)]
           cancelled == before - Len(g1.orders)
       IN IF cancelled = 0 THEN Out(g1, v, 404, [error |-> "Order not found"])
          ELSE broadcastState(Out(g1, v + 1, 200, [ok |-> TRUE, cancelled |-> cancelled]))

\* reset that leaves the trade log in place
resetKeepTrades(g, v, r) ==
  IF ~r.auth THEN Unauthorized(g, v)
  ELSE broadcastState(Out([EmptyGame EXCEPT !.trades = g.trades], v + 1, 200, [ok |-> TRUE]))

\* reset that clears the game but leaves the turn order and the turn in place
resetKeepTurns(g, v, r) ==
  IF ~r.auth THEN Unauthorized(g, v)
  ELSE broadcastState(Out([EmptyGame EXCEPT !.turnOrder = g.turnOrder,
                                            !.currentTurnIndex = g.currentTurnIndex],
                          v + 1, 200, [ok |-> TRUE]))

reset(g, v, r) ==
  IF ~r.auth THEN Unauthorized(g, v)
  ELSE broadcastState(Out(EmptyGame, v + 1, 200, [ok |-> TRUE]))

settle(g, v, r) ==
  IF ~r.auth THEN Unauthorized(g, v)
  ELSE LET result == settleContract(g)
       IN IF result.error # Null
          THEN Out(result.g, v, 400, [error |-> Val(result.error)])
          ELSE broadcastState(Out(result.g, v + 1, 200, [ok |-> TRUE, settledPrice |-> result.settledPrice]))

\* setTurnOrder that installs any array without looking the ids up
setTurnOrderUnchecked(g, v, r) ==
  IF ~r.auth THEN Unauthorized(g, v)
  ELSE IF ~r.json THEN BadJSON(g, v)
  ELSE IF r.turnOrder = Null THEN Out(g, v, 400, [error |-> "turnOrder must be array"])
  ELSE broadcastState(Out([g EXCEPT !.turnOrder = Val(r.turnOrder)], v + 1, 200, [ok |-> TRUE]))

\* setTurnOrder that looks up only the first id of the list
setTurnOrderFirstChecked(g, v, r) ==
  IF ~r.auth THEN Unauthorized(g, v)
  ELSE IF ~r.json THEN BadJSON(g, v)
  ELSE IF r.turnOrder = Null THEN Out(g, v, 400, [error |-> "turnOrder must be array"])
  ELSE LET list == Val(r.turnOrder)
       IN IF Len(list) > 0 /\ ~Has(g.players, list[1])
          THEN Out(g, v, 400, [error |-> "Player not found", name |-> list[1]])
          ELSE broadcastState(Out([g EXCEPT !.turnOrder = list], v + 1, 200, [ok |-> TRUE]))

\* turnOrder: Null when the body holds no array, else Some(list)
setTurnOrder(g, v, r) ==
  IF ~r.auth THEN Unauthorized(g, v)
  ELSE IF ~r.json THEN BadJSON(g, v)
  ELSE IF r.turnOrder = Null THEN Out(g, v, 400, [error |-> "turnOrder must be array"])
  ELSE LET list == Val(r.turnOrder)
           unknown == {i \in DOMAIN list : ~Has(g.players, list[i])}
       IN IF unknown # {}
          THEN Out(g, v, 400, [error |-> "Player not found",
                               name |-> list[CHOOSE i \in unknown : \A j \in unknown : i <= j]])
          ELSE broadcastState(Out([g EXCEPT !.turnOrder = list], v + 1, 200, [ok |-> TRUE]))

\* Array.prototype.indexOf on turnOrder: the first 0-based index, or -1
indexOf(list, x) ==
  IF \E i \in DOMAIN list : list[i] = x
  THEN (CHOOSE i \in DOMAIN list : list[i] = x /\ \A j \in 1..(i - 1) : list[j] # x) - 1
  ELSE -1

\* playerName: Null when missing, Some("") the sentinel that disables turns
setCurrentTurn(g, v, r) ==
  IF ~r.auth THEN Unauthorized(g, v)
  ELSE IF ~r.json THEN BadJSON(g, v)
  ELSE IF r.playerName = Null THEN Out(g, v, 400, [error |-> "Missing playerName"])
  ELSE IF Val(r.playerName) = ""
  THEN broadcastState(Out([g EXCEPT !.currentTurnIndex = -1], v + 1, 200,
           [ok |-> TRUE, currentTurnIndex |-> -1]))
  ELSE LET index == indexOf(g.turnOrder, Val(r.playerName))
       IN IF index = -1
          THEN Out(g, v, 400, [error |-> "Player not in turn order",
                               name |-> Val(r.playerName)])
          ELSE broadcastState(Out([g EXCEPT !.currentTurnIndex = index], v + 1, 200,
                   [ok |-> TRUE, currentTurnIndex |-> index]))

\* startTurns that resumes at the participant whose turn it was when turn mode
\* is already active
startTurnsResume(g, v, r) ==
  IF ~r.auth THEN Unauthorized(g, v)
  ELSE IF Len(g.turnOrder) = 0
  THEN Out(g, v, 400, [error |-> "Turn order is empty. Add players to turn order first."])
  ELSE broadcastState(Out([g EXCEPT !.currentTurnIndex = IF @ >= 0 THEN @ ELSE 0],
                          v + 1, 200, [ok |-> TRUE, currentPlayer |-> g.turnOrder[1]]))

startTurns(g, v, r) ==
  IF ~r.auth THEN Unauthorized(g, v)
  ELSE IF Len(g.turnOrder) = 0
  THEN Out(g, v, 400, [error |-> "Turn order is empty. Add players to turn order first."])
  ELSE broadcastState(Out([g EXCEPT !.currentTurnIndex = 0], v + 1, 200,
           [ok |-> TRUE, currentPlayer |-> g.turnOrder[1]]))

stopTurns(g, v, r) ==
  IF ~r.auth THEN Unauthorized(g, v)
  ELSE broadcastState(Out([g EXCEPT !.currentTurnIndex = -1], v + 1, 200, [ok |-> TRUE]))

\* the routes of the server: the handler a request's path selects
Handle(g, v, r) ==
  CASE r.op = "addPlayer" -> addPlayer(g, v, r)
    [] r.op = "toggleReveal" -> toggleReveal(g, v, r)
    [] r.op = "submitOrder" -> submitOrder(g, v, r)
    [] r.op = "cancelOrders" -> cancelOrders(g, v, r)
    [] r.op = "cancelOrder" -> cancelOrder(g, v, r)
    [] r.op = "reset" -> reset(g, v, r)
    [] r.op = "settle" -> settle(g, v, r)
    [] r.op = "setTurnOrder" -> setTurnOrder(g, v, r)
    [] r.op = "setCurrentTurn" -> setCurrentTurn(g, v, r)
    [] r.op = "startTurns" -> startTurns(g, v, r)
    [] r.op = "stopTurns" -> stopTurns(g, v, r)

\* ------------------------------------------------------------------ inputs
Names == {"Alice", "Bob"}
Sides == {"bid", "ask"}
Prices == 1..MaxPrice
Sizes == 1..MaxSize
Counts == 0..MaxCount
OrderIds == 1..MaxOrders

LimitRequests(names, prices, sizes) ==
  [op : {"submitOrder"}, json : {TRUE}, playerName : names, side : Sides,
   price : {R(p) : p \in prices}, size : {R(s) : s \in sizes}, orderType : {"limit"}]

\* a market order carries no price the handler reads
MarketRequests(names, sizes) ==
  [op : {"submitOrder"}, json : {TRUE}, playerName : names, side : Sides,
   price : {R(0)}, size : {R(s) : s \in sizes}, orderType : {"market"}]

\* requests the validation of submitOrder turns down
BadSubmitRequests ==
  LET ok == [op |-> "submitOrder", json |-> TRUE, playerName |-> "Alice", side |-> "bid",
             price |-> R(1), size |-> R(1), orderType |-> "limit"]
  IN {[ok EXCEPT !.json = FALSE], [ok EXCEPT !.playerName = ""],
      [ok EXCEPT !.side = "buy"], [ok EXCEPT !.size = R(0)],
      [ok EXCEPT !.size = Rat(1, 2)], [ok EXCEPT !.price = R(0)],
      [ok EXCEPT !.price = Rat(3, 2)],
      [ok EXCEPT !.size = R(0), !.orderType = "market"]}

PlayerRequests(names, counts) ==
  [op : {"addPlayer"}, json : {TRUE}, name : names, count : counts]
  \cup {[op |-> "addPlayer", json |-> TRUE, name |-> "", count |-> 1],
        [op |-> "addPlayer", json |-> TRUE, name |-> "Alice", count |-> -1],
        [op |-> "addPlayer", json |-> FALSE, name |-> "Alice", count |-> 1]}

CancelRequests(names) ==
  [op : {"cancelOrders"}, json : {TRUE}, playerName : names \cup {""}]
  \cup {[op |-> "cancelOrders", json |-> FALSE, playerName |-> "Alice"]}

TurnLists(names) ==
  {<<>>} \cup {<<a>> : a \in names} \cup {<<a, b>> : a \in names, b \in names}

\* a privileged request without the admin token, and one whose body is no JSON
NoToken(r) == [r EXCEPT !.auth = FALSE]
NoJSON(r) == [r EXCEPT !.json = FALSE]

RevealRequests(names) ==
  LET R0 == [op : {"toggleReveal"}, auth : {TRUE}, json : {TRUE}, name : names \cup {""}]
      r == [op |-> "toggleReveal", auth |-> TRUE, json |-> TRUE, name |-> "Alice"]
  IN R0 \cup {NoToken(r), NoJSON(r)}

CancelOrderRequests ==
  LET R0 == [op : {"cancelOrder"}, auth : {TRUE}, json : {TRUE}, orderId : OrderIds \cup {0}]
      r == [op |-> "cancelOrder", auth |-> TRUE, json |-> TRUE, orderId |-> 1]
  IN R0 \cup {NoToken(r), NoJSON(r)}

SetTurnOrderRequests(names) ==
  LET R0 == [op : {"setTurnOrder"}, auth : {TRUE}, json : {TRUE},
             turnOrder : {Null} \cup {Some(l) : l \in TurnLists(names)}]
      r == [op |-> "setTurnOrder", auth |-> TRUE, json |-> TRUE, turnOrder |-> Some(<<>>)]
  IN R0 \cup {NoToken(r), NoJSON(r)}

SetCurrentTurnRequests(names) ==
  LET R0 == [op : {"setCurrentTurn"}, auth : {TRUE}, json : {TRUE},
             playerName : {Null, Some("")} \cup {Some(n) : n \in names}]
      r == [op |-> "setCurrentTurn", auth |-> TRUE, json |-> TRUE, playerName |-> Some("")]
  IN R0 \cup {NoToken(r), NoJSON(r)}

\* reset, settle, startTurns and stopTurns read no body
PlainRequests(op) == [op : {op}, auth : BOOLEAN]

SubmitRequests ==
  LimitRequests(Names, Prices, Sizes) \cup MarketRequests(Names, Sizes)
  \cup BadSubmitRequests

\* ----------------------------------------------------------------- actions
Init ==
  /\ gameState = EmptyGame
  /\ version = InitialVersion
  /\ req = NoReq
  /\ resp = NoResp
  /\ inflight = {}
  /\ sseClients = {}
  /\ written = <<>>

\* The handler of request r runs from the point where the body has been read
\* to its return, with outcome out: there is no await on that stretch, so it
\* is one step.
Run(r, out, maxVersion) ==
  /\ req = NoReq
  /\ version < maxVersion
  /\ req' = r
  /\ gameState' = out.g
  /\ version' = out.version
  /\ resp' = out.resp
  /\ written' = [c \in sseClients |-> out.events]
  /\ UNCHANGED sseClients

\* Request r arrives while no other request is in flight and its body is read
\* at once.
Serve(r, out, maxVersion) == Run(r, out, maxVersion) /\ UNCHANGED inflight

\* the response has gone out; the server is ready for the next request
Deliver ==
  /\ req # NoReq
  /\ req' = NoReq
  /\ resp' = NoResp
  /\ written' = [c \in sseClients |-> <<>>]
  /\ UNCHANGED <<gameState, version, inflight, sseClients>>

AddPlayer(rs, mv) == \E r \in rs : Serve(r, addPlayer(gameState, version, r), mv)
ToggleReveal(rs, mv) == \E r \in rs : Serve(r, toggleReveal(gameState, version, r), mv)
SubmitOrder(rs, mv) == \E r \in rs : Serve(r, submitOrder(gameState, version, r), mv)
CancelOrders(rs, mv) == \E r \in rs : Serve(r, cancelOrders(gameState, version, r), mv)
CancelOrder(rs, mv) == \E r \in rs : Serve(r, cancelOrder(gameState, version, r), mv)
Reset(rs, mv) == \E r \in rs : Serve(r, reset(gameState, version, r), mv)
Settle(rs, mv) == \E r \in rs : Serve(r, settle(gameState, version, r), mv)
SetTurnOrder(rs, mv) == \E r \in rs : Serve(r, setTurnOrder(gameState, version, r), mv)
SetCurrentTurn(rs, mv) == \E r \in rs : Serve(r, setCurrentTurn(gameState, version, r), mv)
StartTurns(rs, mv) == \E r \in rs : Serve(r, startTurns(gameState, version, r), mv)
StopTurns(rs, mv) == \E r \in rs : Serve(r, stopTurns(gameState, version, r), mv)

MaxVersion == InitialVersion + MaxSteps

Next ==
  \/ AddPlayer(PlayerRequests(Names, Counts), MaxVersion)
  \/ ToggleReveal(RevealRequests(Names), MaxVersion)
  \/ SubmitOrder(SubmitRequests, MaxVersion)
  \/ CancelOrders(CancelRequests(Names), MaxVersion)
  \/ CancelOrder(CancelOrderRequests, MaxVersion)
  \/ Reset(PlainRequests("reset"), MaxVersion)
  \/ Settle(PlainRequests("settle"), MaxVersion)
  \/ SetTurnOrder(SetTurnOrderRequests(Names), MaxVersion)
  \/ SetCurrentTurn(SetCurrentTurnRequests(Names), MaxVersion)
  \/ StartTurns(PlainRequests("startTurns"), MaxVersion)
  \/ StopTurns(PlainRequests("stopTurns"), MaxVersion)
  \/ Deliver

Spec == Init /\ [][Next]_vars

\* ------------------------------------------- the documented example workflow
\* README "Example Workflow": Alice (2 siblings) and Bob (3 siblings) have been
\* added, nothing else has happened; orders are priced at 4 or 5.
AliceCount == 2
BobCount == 3
LowPrice == 4
HighPrice == 5

ExampleGame ==
  addPlayer(addPlayer(EmptyGame, InitialVersion,
                      [op |-> "addPlayer", json |-> TRUE, name |-> "Alice",
                       count |-> AliceCount]).g,
            InitialVersion + 1,
            [op |-> "addPlayer", json |-> TRUE, name |-> "Bob", count |-> BobCount])

ExampleInit ==
  /\ gameState = ExampleGame.g
  /\ version = ExampleGame.version
  /\ req = NoReq
  /\ resp = NoResp
  /\ inflight = {}
  /\ sseClients = {}
  /\ written = <<>>

ExampleMaxVersion == ExampleGame.version + ExampleSteps

ExampleSizes == 1..ExampleMaxSize

ExampleSubmitRequests ==
  LimitRequests(Names, {LowPrice, HighPrice}, ExampleSizes)
  \cup MarketRequests(Names, ExampleSizes)

ExampleNext ==
  \/ ToggleReveal(RevealRequests(Names), ExampleMaxVersion)
  \/ SubmitOrder(ExampleSubmitRequests, ExampleMaxVersion)
  \/ CancelOrders(CancelRequests(Names), ExampleMaxVersion)
  \/ Settle(PlainRequests("settle"), ExampleMaxVersion)
  \/ Reset(PlainRequests("reset"), ExampleMaxVersion)
  \/ Deliver

SpecExample == ExampleInit /\ [][ExampleNext]_vars

\* ------------------------------------------------------- a game in turn mode
\* Alice and Bob have been added, the admin has set the turn order Alice, Bob
\* and started the turns: it is Alice's turn and nothing has been traded.
TurnGame ==
  LET ordered == setTurnOrder(ExampleGame.g, ExampleGame.version,
                   [op |-> "setTurnOrder", auth |-> TRUE, json |-> TRUE,
                    turnOrder |-> Some(<<"Alice", "Bob">>)])
  IN startTurns(ordered.g, ordered.version, [op |-> "startTurns", auth |-> TRUE])

TurnInit ==
  /\ gameState = TurnGame.g
  /\ version = TurnGame.version
  /\ req = NoReq
  /\ resp = NoResp
  /\ inflight = {}
  /\ sseClients = {}
  /\ written = <<>>

TurnMaxVersion == TurnGame.version + TurnSteps

\* a name nobody has registered under
Stranger == "Carol"

TurnSubmitRequests ==
  LimitRequests(Names, Prices, ExampleSizes) \cup MarketRequests(Names, ExampleSizes)
  \cup BadSubmitRequests

TurnNext ==
  \/ SubmitOrder(TurnSubmitRequests, TurnMaxVersion)
  \/ CancelOrders(CancelRequests(Names), TurnMaxVersion)
  \/ SetTurnOrder(SetTurnOrderRequests(Names \cup {Stranger}), TurnMaxVersion)
  \/ SetCurrentTurn(SetCurrentTurnRequests(Names), TurnMaxVersion)
  \/ StartTurns(PlainRequests("startTurns"), TurnMaxVersion)
  \/ StopTurns(PlainRequests("stopTurns"), TurnMaxVersion)
  \/ Deliver

SpecTurns == TurnInit /\ [][TurnNext]_vars

\* ------------------------------------------------------ a session of trading
\* Alice and Bob have been added as in the example workflow and then only
\* trade: limit and market orders priced at 4 or 5.
TradingMaxVersion == ExampleGame.version + TradingSteps

TradingNext ==
  \/ SubmitOrder(ExampleSubmitRequests, TradingMaxVersion)
  \/ Deliver

SpecTrading == ExampleInit /\ [][TradingNext]_vars

\* --------------------------------------------------- requests in flight
\* The handlers that await readBody(req); the privileged ones check the token
\* first and answer 401 without reading the body.
BodyOps ==
  {"addPlayer", "toggleReveal", "submitOrder", "cancelOrders", "cancelOrder",
   "setTurnOrder", "setCurrentTurn"}
Suspends(r) == r.op \in BodyOps /\ ("auth" \in DOMAIN r => r.auth)

\* A request in flight, stamped with the gameState and version of the moment
\* it arrived (the stamps are bookkeeping: no handler reads them).
Stamp(r, g, v) ==
  [f \in DOMAIN r \cup {"seen", "arrived"} |->
     IF f = "seen" THEN g ELSE IF f = "arrived" THEN v ELSE r[f]]

\* readGameState that hands the handler the state of the moment the request
\* arrived
readGameStateAtArrival(now, seen) == seen

\* the gameState a handler works on when its await readBody(req) returns: the
\* global as it is then
readGameState(now, seen) == now

\* A participant's request arrives and its handler suspends in readBody; each
\* participant has at most one request in flight.
Arrive(rs, maxVersion) ==
  \E r \in rs :
    /\ req = NoReq
    /\ version < maxVersion
    /\ Suspends(r)
    /\ \A e \in inflight : e.playerName # r.playerName
    /\ inflight' = inflight \cup {Stamp(r, gameState, version)}
    /\ UNCHANGED <<gameState, version, req, resp, sseClients, written>>

\* The body of one of the requests in flight has been read: its handler
\* resumes and runs to its return.
Complete(maxVersion) ==
  \E e \in inflight :
    /\ Run(e, Handle(readGameState(gameState, e.seen), version, e), maxVersion)
    /\ inflight' = inflight \ {e}

ConcurrentMaxVersion == ExampleGame.version + ConcurrentSteps

ConcurrentRequests ==
  LimitRequests(Names, {LowPrice, HighPrice}, Sizes)
  \cup [op : {"cancelOrders"}, json : {TRUE}, playerName : Names]

ConcurrentNext ==
  \/ Arrive(ConcurrentRequests, ConcurrentMaxVersion)
  \/ Complete(ConcurrentMaxVersion)
  \/ Settle(PlainRequests("settle"), ConcurrentMaxVersion)
  \/ Deliver

SpecConcurrent == ExampleInit /\ [][ConcurrentNext]_vars

\* ------------------------------------------------------ event subscribers
Clients == {"c1", "c2"}

\* GET /api/events: the stream joins sseClients and is sent the current state
Subscribe(clients) ==
  \E c \in clients \ sseClients :
    /\ req = NoReq
    /\ sseClients' = sseClients \cup {c}
    /\ written' = [x \in sseClients' |->
                     IF x = c
                     THEN <<[type |-> "state", version |-> version, state |-> gameState]>>
                     ELSE written[x]]
    /\ UNCHANGED <<gameState, version, req, resp, inflight>>

\* the client closes its stream: req.on('close') removes it from sseClients
Close ==
  \E c \in sseClients :
    /\ req = NoReq
    /\ sseClients' = sseClients \ {c}
    /\ written' = [x \in sseClients' |-> written[x]]
    /\ UNCHANGED <<gameState, version, req, resp, inflight>>

\* A game in turn mode with clients coming and going, open to every request.
EventsMaxVersion == TurnGame.version + EventSteps

EventsNext ==
  \/ Subscribe(Clients)
  \/ Close
  \/ AddPlayer(PlayerRequests(Names, Counts), EventsMaxVersion)
  \/ ToggleReveal(RevealRequests(Names), EventsMaxVersion)
  \/ SubmitOrder(SubmitRequests, EventsMaxVersion)
  \/ CancelOrders(CancelRequests(Names), EventsMaxVersion)
  \/ CancelOrder(CancelOrderRequests, EventsMaxVersion)
  \/ Reset(PlainRequests("reset"), EventsMaxVersion)
  \/ Settle(PlainRequests("settle"), EventsMaxVersion)
  \/ SetTurnOrder(SetTurnOrderRequests(Names), EventsMaxVersion)
  \/ SetCurrentTurn(SetCurrentTurnRequests(Names), EventsMaxVersion)
  \/ StartTurns(PlainRequests("startTurns"), EventsMaxVersion)
  \/ StopTurns(PlainRequests("stopTurns"), EventsMaxVersion)
  \/ Deliver

SpecEvents == TurnInit /\ [][EventsNext]_vars

\* ------------------------------------------------ a session on the ledger
\* The game in turn mode, Alice to move: the two take turns placing limit and
\* market orders priced at 4 or 5 and cancelling their orders, and the admin
\* may cancel an order by id, settle or reset the game at any point.
LedgerMaxVersion == TurnGame.version + LedgerSteps

LedgerNext ==
  \/ SubmitOrder(ExampleSubmitRequests, LedgerMaxVersion)
  \/ CancelOrders(CancelRequests(Names), LedgerMaxVersion)
  \/ CancelOrder(CancelOrderRequests, LedgerMaxVersion)
  \/ Settle(PlainRequests("settle"), LedgerMaxVersion)
  \/ Reset(PlainRequests("reset"), LedgerMaxVersion)
  \/ Deliver

SpecLedger == TurnInit /\ [][LedgerNext]_vars

\* ------------------------------------------------- rounds of a turn order
\* From the game in turn mode the admin may still replace the turn order during
\* the first two accepted operations; from version RoundFrom on only the
\* participants act (submitOrder, cancelOrders).
RoundFrom == TurnGame.version + 2

RoundMaxVersion == RoundFrom + RoundSteps

\* the orders the participants place: one unit, at either price or at the market
RoundSubmitRequests ==
  LimitRequests(Names, {LowPrice, HighPrice}, {1}) \cup MarketRequests(Names, {1})

\* the orders open to the participant whose turn it is: those submitOrder
\* accepts
OpenToCurrent ==
  {r \in RoundSubmitRequests :
     /\ r.playerName = currentPlayer(gameState)
     /\ submitOrder(gameState, version, r).resp.code = 200}

\* the participant whose turn it is places an order that is accepted
TakeTurn == \E r \in OpenToCurrent : Serve(r, submitOrder(gameState, version, r), RoundMaxVersion)

\* TakeTurn is enabled: the server is free, the session has not reached its
\* last version and some order is open to the current participant
CanTakeTurn == req = NoReq /\ version < RoundMaxVersion /\ OpenToCurrent # {}

RoundNext ==
  \/ SubmitOrder(RoundSubmitRequests, RoundMaxVersion)
  \/ CancelOrders(CancelRequests(Names), RoundMaxVersion)
  \/ SetTurnOrder(SetTurnOrderRequests(Names), RoundFrom)
  \/ Deliver

\* Every response goes out (weak fairness of Deliver), and the participant
\* whose turn it is places an accepted order again and again for as long as one
\* is open to them: strong fairness of TakeTurn, SF_vars(TakeTurn), with
\* ENABLED <<TakeTurn>>_vars written out as CanTakeTurn.
SpecRound ==
  /\ TurnInit /\ [][RoundNext]_vars
  /\ WF_vars(Deliver)
  /\ (<>[](~CanTakeTurn) \/ []<><<TakeTurn>>_vars)

\* ------------------------------------------------------------------ claims
\* A step in which a request was served, and what it was.
Served == req = NoReq /\ req' # NoReq
ServedOp(op) == Served /\ req'.op = op
Bids(g) == {g.orders[i] : i \in {j \in DOMAIN g.orders : g.orders[j].side = "bid"}}
Asks(g) == {g.orders[i] : i \in {j \in DOMAIN g.orders : g.orders[j].side = "ask"}}
Book(g) == {g.orders[i] : i \in DOMAIN g.orders}

RECURSIVE SumQuantity(_, _)
SumQuantity(positions, names) ==
  IF names = {} THEN 0
  ELSE LET n == CHOOSE n \in names : TRUE
       IN positions[n].quantity + SumQuantity(positions, names \ {n})

\* C1: in every reachable state no resting bid is priced at or above a resting
\* ask.
C1_NoSelfCross ==
  \A b \in Bids(gameState) : \A a \in Asks(gameState) : b.price < a.price

\* C1 witness: a limit order has just matched and left a two-sided book.
C1_Witness ==
  /\ req.op = "submitOrder" /\ req.orderType = "limit" /\ resp.code = 200
  /\ Len(resp.body.trades) > 0
  /\ Bids(gameState) # {} /\ Asks(gameState) # {}

\* C2: before settlement the quantities of all position entries sum to 0.
C2_ZeroSum ==
  gameState.settledPrice = Null =>
    SumQuantity(gameState.positions, DOMAIN gameState.positions) = 0

\* C2 witness: not settled, a trade between two participants has left open
\* positions, and the last trade had the same participant on both sides.
C2_Witness ==
  /\ gameState.settledPrice = Null
  /\ Len(gameState.trades) >= 2
  /\ LET t == gameState.trades[Len(gameState.trades)] IN t.buyer = t.seller
  /\ \E n \in DOMAIN gameState.positions : gameState.positions[n].quantity # 0

\* C3: every rejected request (any response other than 200) leaves every
\* component of gameState as it was before the request.
C3_RejectedUnchanged ==
  [][(Served /\ resp'.code # 200) => gameState' = gameState]_vars

\* C4: version goes up by exactly 1 on every accepted operation, stays as it is
\* on every rejected one, and never decreases.
C4_Version ==
  [][/\ Served => version' = IF resp'.code = 200 THEN version + 1 ELSE version
     /\ version' >= version]_vars

\* C4 witness: a cancelOrders that removed nothing was accepted and counted.
C4_Witness ==
  /\ req.op = "cancelOrders" /\ resp.code = 200 /\ resp.body.cancelled = 0
  /\ version > InitialVersion

\* The best prices of a book, read off the set of resting orders.
HighestBid(g) ==
  IF Bids(g) = {} THEN Null
  ELSE Some(CHOOSE p \in {b.price : b \in Bids(g)} : \A b \in Bids(g) : b.price <= p)
LowestAsk(g) ==
  IF Asks(g) = {} THEN Null
  ELSE Some(CHOOSE p \in {a.price : a \in Asks(g)} : \A a \in Asks(g) : p <= a.price)

\* A limit request that passes the shape, size, turn and price validation of
\* submitOrder, so that admission control decides it.
ReachesAdmission(g, r) ==
  /\ r.op = "submitOrder" /\ r.json /\ r.playerName # "" /\ r.side \in Sides
  /\ RatIsInt(r.size) /\ r.size[1] > 0
  /\ turnActive(g) => r.playerName = currentPlayer(g)
  /\ r.orderType # "market"
  /\ r.price[1] > 0 /\ RatIsInt(r.price)

SameSideEmpty(g, side) == IF side = "bid" THEN Bids(g) = {} ELSE Asks(g) = {}
Improves(g, side, p) ==
  IF side = "bid" THEN HighestBid(g) # Null /\ p > Val(HighestBid(g))
  ELSE LowestAsk(g) # Null /\ p < Val(LowestAsk(g))
Crosses(g, side, p) ==
  IF side = "bid" THEN LowestAsk(g) # Null /\ p >= Val(LowestAsk(g))
  ELSE HighestBid(g) # Null /\ p <= Val(HighestBid(g))

AdmittedLimit == ServedOp("submitOrder") /\ req'.orderType # "market" /\ resp'.code = 200
RejectedLimit == ServedOp("submitOrder") /\ req'.orderType # "market" /\ resp'.code # 200

ExamplePlayers(g) ==
  /\ DOMAIN g.players = {"Alice", "Bob"}
  /\ g.players["Alice"].siblingCount = AliceCount
  /\ g.players["Bob"].siblingCount = BobCount
OnlyAliceAsk(g, size) ==
  /\ Len(g.orders) = 1
  /\ g.orders[1].player = "Alice" /\ g.orders[1].side = "ask"
  /\ g.orders[1].price = HighPrice /\ g.orders[1].size = size
BobBid(p) ==
  [op |-> "submitOrder", json |-> TRUE, playerName |-> "Bob", side |-> "bid",
   price |-> R(p), size |-> R(1), orderType |-> "limit"]
BobOrder(g, p) ==
  [id |-> g.orderIdCounter, player |-> "Bob", side |-> "bid", price |-> p, size |-> 1]

Flat(pos) ==
  /\ pos.quantity = 0 /\ pos.totalCost = R(0) /\ pos.realizedPnL = R(0)
  /\ "cash" \in DOMAIN pos => pos.cash = 0
ExampleTrade(g) ==
  [id |-> Len(g.trades) + 1, buyer |-> "Bob", seller |-> "Alice",
   price |-> HighPrice, size |-> 1]
AfterExampleTrade(g) ==
  /\ ExamplePlayers(g)
  /\ g.positions["Alice"] =
       [quantity |-> -1, totalCost |-> R(-HighPrice), realizedPnL |-> R(0), cash |-> HighPrice]
  /\ g.positions["Bob"] =
       [quantity |-> 1, totalCost |-> R(HighPrice), realizedPnL |-> R(0), cash |-> -HighPrice]

\* C8: with Alice (2) and Bob (3) registered and flat and Alice's ask of 2 at 5
\* resting, Bob's limit bid of 1 at 5 yields exactly the trade {Bob buys from
\* Alice, price 5, size 1}; Alice is left with quantity -1, realizedPnL 0, cash
\* +5, Bob with quantity +1, cash -5, and Alice's ask rests with size 1.  A
\* following settle returns settlementPrice 5, zeroes both quantities and
\* leaves both realizedPnL at 0.
C8_Example ==
  [][/\ (Served /\ ExamplePlayers(gameState) /\ OnlyAliceAsk(gameState, 2)
         /\ Flat(gameState.positions["Alice"]) /\ Flat(gameState.positions["Bob"])
         /\ req' = BobBid(HighPrice)) =>
          /\ resp' = [code |-> 200,
                      body |-> [ok |-> TRUE, trades |-> <<ExampleTrade(gameState)>>]]
          /\ gameState'.trades = Append(gameState.trades, ExampleTrade(gameState))
          /\ gameState'.positions["Alice"].quantity = -1
          /\ gameState'.positions["Alice"].realizedPnL = R(0)
          /\ gameState'.positions["Alice"].cash = HighPrice
          /\ gameState'.positions["Bob"].quantity = 1
          /\ gameState'.positions["Bob"].cash = -HighPrice
          /\ OnlyAliceAsk(gameState', 1)
     /\ (Served /\ AfterExampleTrade(gameState)
         /\ req' = [op |-> "settle", auth |-> TRUE]) =>
          /\ resp' = [code |-> 200,
                      body |-> [ok |-> TRUE, settledPrice |-> Some(AliceCount + BobCount)]]
          /\ gameState'.settledPrice = Some(AliceCount + BobCount)
          /\ \A n \in {"Alice", "Bob"} :
               /\ gameState'.positions[n].quantity = 0
               /\ gameState'.positions[n].realizedPnL = R(0)]_vars

\* C8 witness: the example's single trade has happened and the settle that
\* followed it has been answered.
C8_Witness ==
  /\ req = [op |-> "settle", auth |-> TRUE] /\ resp.code = 200
  /\ gameState.trades = <<[id |-> 1, buyer |-> "Bob", seller |-> "Alice",
                           price |-> HighPrice, size |-> 1]>>
  /\ OnlyAliceAsk(gameState, 1)
  /\ gameState.settledPrice = Some(AliceCount + BobCount)
  /\ gameState.positions["Alice"].quantity = 0
  /\ gameState.positions["Bob"].quantity = 0

\* A submitOrder that was accepted, the resting orders it faced, and what
\* became of each of them.
Executed == ServedOp("submitOrder") /\ resp'.code = 200
Facing == {o \in Book(gameState) : o.side # req'.side}
Left(o) == {n \in Book(gameState') : n.id = o.id}
GotFill(o) == \A n \in Left(o) : n.size < o.size
FilledCompletely(o) == Left(o) = {}
Counterparty(t) == IF req'.side = "bid" THEN t.seller ELSE t.buyer
Aggressor(t) == IF req'.side = "bid" THEN t.buyer ELSE t.seller
Matchable(o) ==
  \/ req'.orderType = "market"
  \/ IF req'.side = "bid" THEN o.price <= req'.price[1] ELSE o.price >= req'.price[1]
Ahead(a, b) ==
  \/ IF req'.side = "bid" THEN a.price < b.price ELSE a.price > b.price
  \/ a.price = b.price /\ a.id < b.id

\* C9: every trade made by an accepted limit or market order is made by the
\* submitter against the owner of a resting order that got a fill, at that
\* resting order's price; a limit buy never trades above its limit price and a
\* limit sell never below it.
C9_RestingPrice ==
  [][Executed =>
       \A k \in DOMAIN resp'.body.trades :
         LET t == resp'.body.trades[k]
         IN /\ Aggressor(t) = req'.playerName
            /\ \E o \in Facing :
                 GotFill(o) /\ o.player = Counterparty(t) /\ o.price = t.price
            /\ req'.orderType # "market" =>
                 IF req'.side = "bid" THEN t.price <= req'.price[1]
                 ELSE t.price >= req'.price[1]]_vars

\* C9 witness: a limit buy priced above the resting ask has traded at the
\* ask's price, below its own.
C9_Witness ==
  /\ req.op = "submitOrder" /\ req.orderType = "limit" /\ req.side = "bid"
  /\ resp.code = 200 /\ Len(resp.body.trades) > 0
  /\ resp.body.trades[1].price = LowPrice /\ req.price = R(HighPrice)

\* C10: when an accepted limit or market order executes, a resting order gets a
\* fill only if every resting order it could match that has a strictly better
\* price, or the same price and a smaller id, has been filled completely.
C10_Priority ==
  [][Executed =>
       \A o \in Facing : GotFill(o) =>
         \A o2 \in Facing : (Matchable(o2) /\ Ahead(o2, o)) => FilledCompletely(o2)]_vars

\* C10 witness: one buy has consumed two resting asks, the lower priced first.
C10_Witness ==
  /\ req.op = "submitOrder" /\ req.side = "bid" /\ resp.code = 200
  /\ Len(resp.body.trades) = 2
  /\ resp.body.trades[1].price = LowPrice /\ resp.body.trades[2].price = HighPrice

\* A market submission, the submitter's own side of a book, and the total size
\* of a list of trades.
MarketServed == ServedOp("submitOrder") /\ req'.orderType = "market"
OwnSide(g, side) == {o \in Book(g) : o.side = side}

RECURSIVE TradedSize(_)
TradedSize(trades) ==
  IF trades = <<>> THEN 0 ELSE trades[1].size + TradedSize(Tail(trades))

\* C11: a market submission, accepted or rejected and whatever part of it is
\* left unfilled, is never turned down by tighten-or-trade and never rests: the
\* submitter's own side of the book and orderIdCounter are as before.
C11_MarketNeverRests ==
  [][MarketServed =>
       /\ OwnSide(gameState', req'.side) = OwnSide(gameState, req'.side)
       /\ gameState'.orderIdCounter = gameState.orderIdCounter
       /\ resp'.code # 200 => resp'.body.error # "Tighten or trade"]_vars

\* C11 witness: a market order was accepted with part of its size unfilled
\* while its own side of the book held an order.
C11_Witness ==
  /\ req.op = "submitOrder" /\ req.orderType = "market" /\ resp.code = 200
  /\ TradedSize(resp.body.trades) < req.size[1]
  /\ OwnSide(gameState, req.side) # {}

\* The total size resting on the side a market order would take from.
RECURSIVE RestingSize(_, _)
RestingSize(orders, side) ==
  IF orders = <<>> THEN 0
  ELSE (IF orders[1].side = side THEN orders[1].size ELSE 0)
       + RestingSize(Tail(orders), side)
Available(g, side) == RestingSize(g.orders, IF side = "bid" THEN "ask" ELSE "bid")

\* A market request that passes the shape, size and turn validation of
\* submitOrder, so that it is executed against the book.
ReachesMarket(g, r) ==
  /\ r.op = "submitOrder" /\ r.json /\ r.playerName # "" /\ r.side \in Sides
  /\ RatIsInt(r.size) /\ r.size[1] > 0
  /\ turnActive(g) => r.playerName = currentPlayer(g)
  /\ r.orderType = "market"

\* C12: a market order that finds nothing to take is rejected as insufficient
\* liquidity, with no trade, no version increment and no turn advance; one that
\* can fill at least 1 contract but less than its size is accepted, its trades
\* sum to what was available, version goes up by 1 and, in turn mode, the turn
\* moves to the next participant.
C12_MarketFill ==
  [][(Served /\ ReachesMarket(gameState, req')) =>
       LET avail == Available(gameState, req'.side)
       IN /\ avail = 0 =>
               /\ resp'.code = 400
               /\ resp'.body.error =
                    "Insufficient liquidity - market order could not be filled"
               /\ gameState'.trades = gameState.trades
               /\ version' = version
               /\ gameState'.currentTurnIndex = gameState.currentTurnIndex
               /\ gameState'.priceHistory = gameState.priceHistory
          /\ (0 < avail /\ avail < req'.size[1]) =>
               /\ resp'.code = 200
               /\ TradedSize(resp'.body.trades) = avail
               /\ gameState'.trades = gameState.trades \o resp'.body.trades
               /\ version' = version + 1
               /\ turnActive(gameState) =>
                    gameState'.currentTurnIndex =
                      (gameState.currentTurnIndex + 1) % Len(gameState.turnOrder)]_vars

\* C12 witness: in turn mode a market order was accepted with part of its size
\* unfilled and the turn has passed to the other participant.
C12_Witness ==
  /\ req.op = "submitOrder" /\ req.orderType = "market" /\ resp.code = 200
  /\ 0 < TradedSize(resp.body.trades) /\ TradedSize(resp.body.trades) < req.size[1]
  /\ turnActive(gameState) /\ Len(gameState.turnOrder) = 2
  /\ currentPlayer(gameState) # req.playerName

\* The ledger obtained by replaying a trade log through updatePosition, buyer
\* first and then seller, starting from a ledger without entries.
RECURSIVE Replay(_, _)
Replay(g, trades) ==
  IF trades = <<>> THEN g
  ELSE LET t == trades[1]
           bought == updatePosition(g, t.buyer, t.size, t.price)
           sold == updatePosition(bought, t.seller, -t.size, t.price)
       IN Replay(sold, Tail(trades))

\* quantity, totalCost, realizedPnL and cash of a participant; a participant
\* without an entry is all zero, and an entry addPlayer made, which has no cash
\* field yet, holds no cash.
LedgerLine(positions, n) ==
  IF n \in DOMAIN positions
  THEN <<positions[n].quantity, positions[n].totalCost, positions[n].realizedPnL,
         IF "cash" \in DOMAIN positions[n] THEN positions[n].cash ELSE 0>>
  ELSE <<0, R(0), R(0), 0>>

ReplayMatchesLedger ==
  LET replayed == Replay(EmptyGame, gameState.trades).positions
  IN \A n \in DOMAIN gameState.positions \cup DOMAIN replayed :
       LedgerLine(replayed, n) = LedgerLine(gameState.positions, n)

\* C13 as stated: in every reachable state, replaying the full trade log in
\* order through updatePosition from an all-zero ledger yields the live
\* quantity, totalCost, realizedPnL and cash of every participant.
C13_Original == ReplayMatchesLedger

\* C13 amended: in every reachable state in which no settle has been accepted
\* since construction or the last reset, replaying the full trade log through
\* updatePosition from an all-zero ledger yields the live ledger.
C13_ReplayBeforeSettle == gameState.settledPrice = Null => ReplayMatchesLedger

\* C13 witness: not settled, two trades are on the log and positions are open.
C13_Witness ==
  /\ gameState.settledPrice = Null
  /\ Len(gameState.trades) = 2
  /\ gameState.trades[1].price # gameState.trades[2].price
  /\ \E n \in DOMAIN gameState.positions : gameState.positions[n].quantity = 2

\* The prices of the trades a participant has taken part in.
TradePrices(g, n) ==
  {g.trades[i].price : i \in {j \in DOMAIN g.trades :
                                g.trades[j].buyer = n \/ g.trades[j].seller = n}}

\* C14: for every participant with quantity # 0, totalCost / quantity is
\* strictly positive and lies between the lowest and the highest price among
\* the trades that participant has taken part in.
C14_AverageEntry ==
  \A n \in DOMAIN gameState.positions :
    LET pos == gameState.positions[n]
        avg == RatDiv(pos.totalCost, R(pos.quantity))
    IN pos.quantity # 0 =>
         /\ RatLt(R(0), avg)
         /\ \E lo \in TradePrices(gameState, n) : RatLe(R(lo), avg)
         /\ \E hi \in TradePrices(gameState, n) : RatLe(avg, R(hi))

AllFlat(g) == \A n \in DOMAIN g.positions : g.positions[n].quantity = 0

\* C15: a settle that follows an accepted settle is accepted and leaves cash,
\* realizedPnL, quantity and totalCost of every participant as the first call
\* left them.  The second call is the settle handler applied to the state and
\* version the first one left (delivering the first response changes neither);
\* the second conjunct is the same statement for a settle served on a ledger
\* that is already settled and flat.
C15_SettleTwice ==
  [][/\ (ServedOp("settle") /\ resp'.code = 200) =>
          LET second == settle(gameState', version', req')
          IN /\ second.resp.code = 200
             /\ second.g.positions = gameState'.positions
     /\ (ServedOp("settle") /\ req'.auth /\ gameState.settledPrice # Null
         /\ AllFlat(gameState)) =>
          /\ resp'.code = 200
          /\ gameState'.positions = gameState.positions]_vars

\* C15 witness: a settle has been accepted that closed open positions away
\* from their entry price, so that both participants carry realised P&L.
C15_Witness ==
  /\ req = [op |-> "settle", auth |-> TRUE] /\ resp.code = 200
  /\ Len(gameState.trades) > 0
  /\ AllFlat(gameState)
  /\ \E n \in DOMAIN gameState.positions : gameState.positions[n].realizedPnL # R(0)

\* A submitOrder or cancelOrders request served while turn mode is active, and
\* whether its body names a participant and, for an order, a side and a size.
Gated == Served /\ req'.op \in {"submitOrder", "cancelOrders"} /\ turnActive(gameState)
WellFormed(r) ==
  /\ r.json /\ r.playerName # ""
  /\ r.op = "submitOrder" => (r.side \in Sides /\ RatIsInt(r.size) /\ r.size[1] > 0)

\* C16: while turn mode is active a submitOrder or cancelOrders request is
\* accepted only from turnOrder[currentTurnIndex]; a request that names any
\* other participant is rejected and changes neither gameState nor version,
\* and unless its body is malformed the rejection is "Not your turn" with the
\* current participant attached.
C16_TurnGating ==
  [][Gated =>
       /\ resp'.code = 200 =>
            /\ gameState.currentTurnIndex + 1 \in DOMAIN gameState.turnOrder
            /\ req'.playerName = gameState.turnOrder[gameState.currentTurnIndex + 1]
       /\ req'.playerName # currentPlayer(gameState) =>
            /\ resp'.code # 200
            /\ gameState' = gameState /\ version' = version
            /\ WellFormed(req') =>
                 resp' = [code |-> 400,
                          body |-> [error |-> "Not your turn",
                                    currentPlayer |-> currentPlayer(gameState)]]]_vars

\* C16 witness: Alice has used her turn and her next request, a cancelOrders,
\* is turned down because it is Bob's turn.
C16_Witness ==
  /\ req.op = "cancelOrders" /\ req.playerName = "Alice"
  /\ resp.code = 400 /\ resp.body.error = "Not your turn"
  /\ resp.body.currentPlayer = "Bob"
  /\ turnActive(gameState) /\ Len(gameState.orders) > 0

\* A game state with all its revealed flags cleared; the sum of the secret
\* values of all registered participants.
Unflagged(g) ==
  [g EXCEPT !.players = [n \in DOMAIN @ |-> [@[n] EXCEPT !.revealed = FALSE]]]

RECURSIVE SecretSum(_)
SecretSum(players) ==
  IF DOMAIN players = {} THEN 0
  ELSE LET n == CHOOSE n \in DOMAIN players : TRUE
       IN players[n].siblingCount
          + SecretSum([m \in DOMAIN players \ {n} |-> players[m]])

\* C17: settle prices the contract at the sum of the secret values of all
\* registered participants whatever their revealed flags.  toggleReveal changes
\* nothing but revealed flags, and every other request gives the response and,
\* up to the flags, the state it would give had no flag ever been set; so two
\* executions that differ only in their toggleReveal calls pass through states
\* that differ only in flags and settle at the same price with the same
\* positions.
C17_RevealIndependent ==
  [][Served =>
       /\ req'.op = "toggleReveal" => Unflagged(gameState') = Unflagged(gameState)
       /\ req'.op # "toggleReveal" =>
            LET other == Handle(Unflagged(gameState), version, req')
            IN /\ other.resp = resp'
               /\ Unflagged(other.g) = Unflagged(gameState')
       /\ (req'.op = "settle" /\ resp'.code = 200) =>
            /\ resp'.body.settledPrice = Some(SecretSum(gameState.players))
            /\ gameState'.settledPrice = Some(SecretSum(gameState.players))]_vars

\* C17 witness: a settle has been accepted at 2 + 3 while one participant's
\* count was revealed and the other's was not.
C17_Witness ==
  /\ req = [op |-> "settle", auth |-> TRUE] /\ resp.code = 200
  /\ resp.body.settledPrice = Some(AliceCount + BobCount)
  /\ \E n \in DOMAIN gameState.players : gameState.players[n].revealed
  /\ \E n \in DOMAIN gameState.players : ~gameState.players[n].revealed

\* A step in which a request arrived and suspended, and one in which the
\* handler of a request in flight resumed and ran to its return.
Arrived == inflight' # inflight /\ inflight \subseteq inflight'
Completed == inflight' # inflight /\ inflight' \subseteq inflight
Admissible(g, side, p) ==
  SameSideEmpty(g, side) \/ Improves(g, side, p) \/ Crosses(g, side, p)

\* C18: with several requests in flight and their body reads completing in
\* any order, an arrival changes nothing, and each completing handler works on
\* gameState and version as the previous handler left them and leaves exactly
\* what it computes from them, in one step; so the state after any number of
\* completions is that of running the handlers one after another in the order
\* of completion.  A limit order is admitted only if it passes admission
\* against the book as it is when its handler resumes: one that would have
\* passed against the book of the moment it arrived, but not against the book
\* an order completed in between has left, is rejected and leaves the book
\* alone.
C18_RunToCompletion ==
  [][/\ Arrived => UNCHANGED <<gameState, version, req, resp>>
     /\ Completed =>
          LET out == Handle(gameState, version, req')
          IN /\ req' \in inflight
             /\ gameState' = out.g /\ version' = out.version /\ resp' = out.resp
             /\ ReachesAdmission(gameState, req') =>
                  /\ resp'.code = 200 =>
                       Admissible(gameState, req'.side, req'.price[1])
                  /\ ~Admissible(gameState, req'.side, req'.price[1]) =>
                       /\ resp'.code = 400
                       /\ gameState'.orders = gameState.orders]_vars

\* C18 witness: two bids at the same price arrived while the bid side was
\* empty, each admissible against that book; the first to complete rests, and
\* the second has been rejected against the book the first one left.
C18_Witness ==
  /\ req.op = "submitOrder" /\ "seen" \in DOMAIN req /\ req.side = "bid"
  /\ Bids(req.seen) = {}
  /\ resp.code = 400 /\ resp.body.error = "Tighten or trade"
  /\ resp.body.bestBid = Some(req.price[1])
  /\ \E o \in Bids(gameState) : o.player # req.playerName /\ o.price = req.price[1]
  /\ req.arrived < version

\* C19: every accepted request makes exactly one write to every client
\* subscribed at that moment, an event carrying the incremented version and
\* the gameState the handler has left; a rejected request writes to no client.
C19_Broadcast ==
  [][Served =>
       /\ sseClients' = sseClients
       /\ DOMAIN written' = sseClients
       /\ \A c \in sseClients :
            written'[c] =
              IF resp'.code = 200
              THEN <<[type |-> "state", version |-> version + 1, state |-> gameState']>>
              ELSE <<>>]_vars

\* C19 witness: with two clients subscribed a privileged cancelOrder has
\* removed an order and both clients were written the new version.
C19_Witness ==
  /\ req.op = "cancelOrder" /\ resp.code = 200
  /\ sseClients = Clients
  /\ \A c \in Clients : Len(written[c]) = 1 /\ written[c][1].version = version
                        /\ written[c][1].state.orders = <<>>

\* The total size of a set of resting orders, and what is left in the book of
\* a resting order after the step (0 when it is gone).
RECURSIVE SetSize(_)
SetSize(orders) ==
  IF orders = {} THEN 0
  ELSE LET o == CHOOSE o \in orders : TRUE IN o.size + SetSize(orders \ {o})
LeftSize(o) == SetSize(Left(o))
Rested == {n \in Book(gameState') : n.id = gameState.orderIdCounter}

\* C20: for an admitted limit order of size s the trades sum to min(s, total
\* size of the compatible resting orders); there is exactly one trade per
\* resting order touched; every resting order gives up what was traded
\* against it, leaves the book when nothing is left of it and otherwise stays
\* with its reduced size; and the order rests, with size s minus the filled
\* amount, exactly when s exceeds the filled amount.
C20_FillAccounting ==
  [][AdmittedLimit =>
       LET s == req'.size[1]
           compatible == {o \in Facing : Matchable(o)}
           touched == {o \in Facing : GotFill(o)}
           filled == TradedSize(resp'.body.trades)
       IN /\ filled = Min(s, SetSize(compatible))
          /\ Len(resp'.body.trades) = Cardinality(touched)
          /\ touched \subseteq compatible
          /\ SetSize(Facing) - SetSize({n \in Book(gameState') : n.side # req'.side})
               = filled
          /\ \A o \in Facing :
               /\ Cardinality(Left(o)) <= 1
               /\ \A n \in Left(o) : n = [o EXCEPT !.size = n.size] /\ n.size <= o.size
          /\ \A n \in Book(gameState') : n.size > 0
          /\ IF s > filled
             THEN Rested = {[id |-> gameState.orderIdCounter, player |-> req'.playerName,
                             side |-> req'.side, price |-> req'.price[1],
                             size |-> s - filled]}
             ELSE Rested = {}]_vars

\* C20 witness: a limit order of size 2 has taken the one compatible contract,
\* which left the book, and rests with size 1.
C20_Witness ==
  /\ req.op = "submitOrder" /\ req.orderType = "limit" /\ resp.code = 200
  /\ req.size = R(2) /\ TradedSize(resp.body.trades) = 1
  /\ \E n \in Book(gameState) :
       n.id = gameState.orderIdCounter - 1 /\ n.player = req.playerName /\ n.size = 1
  /\ Cardinality(Book(gameState)) = 1

\* ---------------------------------------------------------------- the ledger
\* the position n holds once the handler has run ensurePosition for it
Held(g, n) == WithCash(IF Has(g.positions, n) THEN g.positions[n] ELSE NewPosition)

\* a submitOrder step that executed exactly one trade, between two participants
OneTrade ==
  /\ Executed
  /\ Len(gameState'.trades) = Len(gameState.trades) + 1
  /\ gameState'.trades[Len(gameState'.trades)].buyer
       # gameState'.trades[Len(gameState'.trades)].seller

LastTrade == gameState'.trades[Len(gameState'.trades)]

Traders == {LastTrade.buyer, LastTrade.seller}

\* the quantity updatePosition is called with for n: +size for the buyer,
\* -size for the seller
SignedQuantity(n) == IF n = LastTrade.buyer THEN LastTrade.size ELSE -LastTrade.size

Extends(pos, q) == (q > 0 /\ pos.quantity >= 0) \/ (q < 0 /\ pos.quantity <= 0)

\* C21: a trade that extends a participant's position or opens it from flat (a
\* buy while quantity >= 0, a sell while quantity <= 0) changes cash by
\* -signedQuantity * price, totalCost by +signedQuantity * price and quantity
\* by +signedQuantity, and leaves realizedPnL unchanged.
C21_Extend ==
  [][OneTrade =>
       \A n \in Traders :
         LET old == Held(gameState, n)
             new == gameState'.positions[n]
             q == SignedQuantity(n)
             p == LastTrade.price
         IN Extends(old, q) =>
              /\ new.cash = old.cash - q * p
              /\ new.totalCost = RatAdd(old.totalCost, R(q * p))
              /\ new.quantity = old.quantity + q
              /\ new.realizedPnL = old.realizedPnL]_vars

\* one trade has just been served whose buyer was long before it and whose
\* seller was short before it
C21_Witness ==
  /\ req # NoReq /\ req.op = "submitOrder" /\ resp.code = 200
  /\ Len(resp.body.trades) = 1
  /\ LET t == resp.body.trades[1]
     IN /\ t.buyer # t.seller
        /\ gameState.positions[t.buyer].quantity > t.size
        /\ gameState.positions[t.seller].quantity < -t.size

\* the average cost of an open position: totalCost / quantity
AvgCost(pos) == RatDiv(pos.totalCost, R(pos.quantity))

C23_CoverShort ==
  [][OneTrade =>
       LET n == LastTrade.size
           p == LastTrade.price
           old == Held(gameState, LastTrade.buyer)
           new == gameState'.positions[LastTrade.buyer]
       IN old.quantity < 0 /\ n <= -old.quantity =>
            /\ new.realizedPnL =
                 RatSub(old.realizedPnL, RatMul(R(n), RatSub(R(p), AvgCost(old))))
            /\ new.quantity = old.quantity + n
            /\ new.totalCost = RatAdd(old.totalCost, RatMul(R(n), AvgCost(old)))
            /\ (n = -old.quantity => new.quantity = 0 /\ new.totalCost = R(0))]_vars

Sign(x) == IF x > 0 THEN 1 ELSE IF x < 0 THEN -1 ELSE 0

\* the trade takes n's position through zero
Flips(pos, q) == pos.quantity # 0 /\ Sign(q) # Sign(pos.quantity) /\ Abs(q) > Abs(pos.quantity)

\* what the trade leaves of n's position if it realizes P&L on the closed part
\* and opens the residual at the trade price
Flipped(old, q, p) ==
  [old EXCEPT !.quantity = old.quantity + q,
              !.totalCost = R((old.quantity + q) * p),
              !.realizedPnL = RatAdd(@, RatMul(R(old.quantity),
                                               RatSub(R(p), AvgCost(old)))),
              !.cash = @ - q * p]

\* C24: a trade larger than the participant's open position, in either
\* direction, realizes P&L on the closed part only and leaves the residual on
\* the opposite side opened at the trade price: totalCost = quantity * price.
C24_Flip ==
  [][OneTrade =>
       \A n \in Traders :
         LET old == Held(gameState, n)
             q == SignedQuantity(n)
         IN Flips(old, q) =>
              gameState'.positions[n] = Flipped(old, q, LastTrade.price)]_vars

\* C25: a successful settle, for every participant with quantity # 0, adds
\* quantity * settlementPrice - totalCost to realizedPnL, adds
\* quantity * settlementPrice to cash and sets quantity and totalCost to 0; it
\* records the settlement price (the sum of the secret values) on the state,
\* leaves every participant with quantity 0 unchanged, and changes neither the
\* order book, the trade log, the turn state nor the price history; afterwards
\* every quantity is 0.
C25_Settle ==
  [][(ServedOp("settle") /\ resp'.code = 200) =>
       LET price == SecretSum(gameState.players)
       IN /\ gameState'.settledPrice = Some(price)
          /\ DOMAIN gameState'.positions = DOMAIN gameState.positions
          /\ \A n \in DOMAIN gameState.positions :
               LET old == gameState.positions[n]
                   new == gameState'.positions[n]
               IN /\ old.quantity # 0 =>
                       /\ new.realizedPnL =
                            RatAdd(old.realizedPnL,
                                   RatSub(R(old.quantity * price), old.totalCost))
                       /\ new.cash = old.cash + old.quantity * price
                       /\ new.quantity = 0
                       /\ new.totalCost = R(0)
                  /\ old.quantity = 0 => new = old
                  /\ new.quantity = 0
          /\ gameState'.orders = gameState.orders
          /\ gameState'.trades = gameState.trades
          /\ gameState'.turnOrder = gameState.turnOrder
          /\ gameState'.currentTurnIndex = gameState.currentTurnIndex
          /\ gameState'.priceHistory = gameState.priceHistory]_vars

\* a settle has just been accepted in turn mode, over a resting order, a price
\* history and open positions entered away from the settlement price: both
\* participants were paid or charged and carry realised P&L
C25_Witness ==
  /\ req = [op |-> "settle", auth |-> TRUE] /\ resp.code = 200
  /\ gameState.orders # <<>>
  /\ turnActive(gameState) /\ gameState.priceHistory # <<>>
  /\ \A n \in {"Alice", "Bob"} :
       /\ gameState.positions[n].quantity = 0
       /\ gameState.positions[n].realizedPnL # R(0)
       /\ gameState.positions[n].cash # 0

\* C26: settle is rejected when the sum of the secret values of all
\* participants is 0, that is with no participants or with participants whose
\* secret values are all 0, even when open positions exist; a rejected settle
\* leaves the game state (positions and settledPrice included) and the version
\* unchanged.
C26_NothingToSettle ==
  [][ServedOp("settle") =>
       /\ (\A n \in DOMAIN gameState.players : gameState.players[n].siblingCount = 0)
            => /\ resp'.code # 200
               /\ req'.auth => resp' = [code |-> 400,
                                        body |-> [error |-> "No players added yet"]]
       /\ resp'.code # 200 => gameState' = gameState /\ version' = version]_vars

\* a privileged settle has just been turned down although a trade has opened
\* positions: nobody has registered
C26_Witness ==
  /\ req = [op |-> "settle", auth |-> TRUE] /\ resp.code = 400
  /\ DOMAIN gameState.players = {}
  /\ gameState.settledPrice = Null
  /\ \E n \in DOMAIN gameState.positions : gameState.positions[n].quantity # 0

\* ------------------------------------------------------------- turn keeping
\* (bestBid + bestAsk) / 2 of a book, or none if a side is empty
MidOf(g) ==
  IF HighestBid(g) = Null \/ LowestAsk(g) = Null THEN Null
  ELSE Some(Rat(Val(HighestBid(g)) + Val(LowestAsk(g)), 2))

\* the step passed the turn on and recorded it
TurnAdvanced ==
  /\ gameState'.currentTurnIndex
       = (gameState.currentTurnIndex + 1) % Len(gameState.turnOrder)
  /\ gameState'.turnOrder = gameState.turnOrder
  /\ gameState'.priceHistory
       = Append(gameState.priceHistory,
                [turn |-> Len(gameState.priceHistory) + 1, midPrice |-> MidOf(gameState')])

TurnKept ==
  /\ gameState'.currentTurnIndex = gameState.currentTurnIndex
  /\ gameState'.turnOrder = gameState.turnOrder
  /\ gameState'.priceHistory = gameState.priceHistory

\* C27: while turn mode is active, every accepted submitOrder and every
\* cancelOrders that removed at least one order sets currentTurnIndex to
\* (currentTurnIndex + 1) mod Len(turnOrder) and appends exactly one
\* price-history entry, numbered one more than the entries before it, whose
\* midPrice is (bestBid + bestAsk)/2 of the book after the operation, or none
\* if a side is empty; a cancelOrders of the participant whose turn it is that
\* removes no order is accepted without advancing the turn or appending an
\* entry; while turn mode is inactive no request appends an entry.
C27_TurnAdvance ==
  [][Served =>
       /\ (Gated /\ req'.op = "submitOrder" /\ resp'.code = 200) => TurnAdvanced
       /\ (Gated /\ req'.op = "cancelOrders" /\ WellFormed(req')
           /\ req'.playerName = currentPlayer(gameState)) =>
            /\ resp'.code = 200
            /\ IF \E o \in Book(gameState) : o.player = req'.playerName
               THEN TurnAdvanced ELSE TurnKept
       /\ ~turnActive(gameState) => gameState'.priceHistory = gameState.priceHistory]_vars

\* both participants have used a turn, the second by an accepted order that
\* left a bid and an ask resting: the turn is back at the first participant and
\* the second history entry carries a mid price
C27_Witness ==
  /\ req # NoReq /\ req.op = "submitOrder" /\ resp.code = 200
  /\ turnActive(gameState) /\ gameState.currentTurnIndex = 0
  /\ Len(gameState.turnOrder) = 2
  /\ Len(gameState.priceHistory) = 2
  /\ gameState.priceHistory[1].midPrice = Null
  /\ gameState.priceHistory[2].midPrice # Null

\* C28: startTurns is accepted only when the turn order is non-empty and then
\* sets currentTurnIndex to 0 whatever its previous value; with an empty turn
\* order it is rejected and the state is unchanged; stopTurns always sets
\* currentTurnIndex to -1; neither operation changes anything else of the game
\* state (turn order, book, positions, price history).  The operations are
\* privileged: "accepted" and "always" are read for requests that carry the
\* admin token; one without it is turned away and changes nothing.
C28_StartStop ==
  [][/\ ServedOp("startTurns") =>
          /\ resp'.code = 200 <=> (req'.auth /\ Len(gameState.turnOrder) > 0)
          /\ resp'.code = 200 =>
               /\ gameState' = [gameState EXCEPT !.currentTurnIndex = 0]
               /\ version' = version + 1
          /\ resp'.code # 200 => gameState' = gameState /\ version' = version
     /\ ServedOp("stopTurns") =>
          /\ resp'.code = 200 <=> req'.auth
          /\ resp'.code = 200 =>
               /\ gameState' = [gameState EXCEPT !.currentTurnIndex = -1]
               /\ version' = version + 1
          /\ resp'.code # 200 => gameState' = gameState /\ version' = version]_vars

\* startTurns has just been accepted after the first participant had used a
\* turn: the turn is back at index 0 over a resting order and a history entry
C28_Witness ==
  /\ req = [op |-> "startTurns", auth |-> TRUE] /\ resp.code = 200
  /\ gameState.currentTurnIndex = 0
  /\ Len(gameState.turnOrder) = 2
  /\ Len(gameState.priceHistory) = 1
  /\ gameState.orders # <<>>

\* the ids of a list that no registered participant bears
Unknown(g, list) == {list[i] : i \in DOMAIN list} \ DOMAIN g.players

C30_CancelOrders ==
  [][(ServedOp("cancelOrders") /\ resp'.code = 200) =>
       LET own == {o \in Book(gameState) : o.player = req'.playerName}
       IN /\ Book(gameState') = Book(gameState) \ own
          /\ Len(gameState'.orders) = Len(gameState.orders) - Cardinality(own)
          /\ resp'.body.cancelled = Cardinality(own)
          /\ gameState'.trades = gameState.trades
          /\ gameState'.positions = gameState.positions
          /\ gameState'.players = gameState.players]_vars

\* a cancelOrders has just withdrawn what was left of a participant's order
\* after a trade that opened positions for both participants
C30_Witness ==
  /\ req # NoReq /\ req.op = "cancelOrders" /\ resp.code = 200
  /\ resp.body.cancelled > 0
  /\ \A o \in Book(gameState) : o.player # req.playerName
  /\ gameState.trades # <<>>
  /\ \A n \in {"Alice", "Bob"} : gameState.positions[n].quantity # 0

\* ------------------------------------------------------- privileged requests
\* the resting orders that bear the id a cancelOrder request names
Named(g, r) == {o \in Book(g) : o.id = r.orderId}

\* C31: the privileged cancelOrder(order id) removes exactly the one resting
\* order with that id (count 1) and no other order; when no resting order has
\* that id it is rejected as not found with state and version unchanged; in
\* both cases it is not subject to turn gating (whose turn it is plays no part)
\* and neither advances the turn nor appends to the price history.  The request
\* is taken to carry the admin token and a JSON body with an order id.
C31_CancelOrder ==
  [][ServedOp("cancelOrder") =>
       /\ (req'.auth /\ req'.json /\ req'.orderId # 0) =>
            IF Named(gameState, req') # {}
            THEN /\ Cardinality(Named(gameState, req')) = 1
                 /\ resp' = [code |-> 200, body |-> [ok |-> TRUE, cancelled |-> 1]]
                 /\ Book(gameState') = Book(gameState) \ Named(gameState, req')
                 /\ Len(gameState'.orders) = Len(gameState.orders) - 1
                 /\ gameState' = [gameState EXCEPT !.orders = gameState'.orders]
                 /\ version' = version + 1
            ELSE /\ resp' = [code |-> 404, body |-> [error |-> "Order not found"]]
                 /\ gameState' = gameState /\ version' = version
       /\ resp'.code # 200 => gameState' = gameState /\ version' = version]_vars

\* in turn mode, after each participant has rested an order, the admin has just
\* cancelled one of the two by id: the other rests, and the turn and the price
\* history stand as the second order left them
C31_Witness ==
  /\ req # NoReq /\ req.op = "cancelOrder" /\ resp.code = 200
  /\ turnActive(gameState) /\ gameState.currentTurnIndex = 0
  /\ Len(gameState.priceHistory) = 2
  /\ gameState.orderIdCounter = 3
  /\ Len(gameState.orders) = 1
  /\ gameState.trades = <<>>

\* C32: from any reachable state, reset (with the admin token) restores the
\* empty initial engine state: no participants, empty book, empty trade log, no
\* positions, order id counter 1, settledPrice none, empty turn order,
\* currentTurnIndex -1, empty price history; version is not reset but
\* incremented by 1.
C32_Reset ==
  [][(ServedOp("reset") /\ req'.auth) =>
       /\ resp'.code = 200
       /\ gameState' = [players |-> <<>>, orders |-> <<>>, trades |-> <<>>,
                        positions |-> <<>>, orderIdCounter |-> 1,
                        settledPrice |-> Null, turnOrder |-> <<>>,
                        currentTurnIndex |-> -1, priceHistory |-> <<>>]
       /\ version' = version + 1]_vars

\* a reset has just been served on the turn-mode game after three requests had
\* been accepted
C32_Witness ==
  /\ req = [op |-> "reset", auth |-> TRUE] /\ resp.code = 200
  /\ gameState = EmptyGame
  /\ version = TurnGame.version + 4

\* --------------------------------------------------------- state invariants
\* a submitOrder request whose size, or for a limit order whose price, is not
\* a strictly positive integer
BadNumbers(r) ==
  \/ ~RatIsInt(r.size) \/ r.size[1] <= 0
  \/ r.orderType # "market" /\ (~RatIsInt(r.price) \/ r.price[1] <= 0)

C34_IndexInRange ==
  /\ \/ gameState.currentTurnIndex = -1
     \/ gameState.currentTurnIndex \in 0..(Len(gameState.turnOrder) - 1)
  /\ turnActive(gameState) => Has(gameState.players, currentPlayer(gameState))

\* b is priced strictly better than a on the side both rest on
Better(b, a) == IF a.side = "bid" THEN b.price > a.price ELSE b.price < a.price

\* C35: the resting orders on one side of the book have pairwise distinct
\* prices, and of two resting orders on the same side the one with the greater
\* id has the strictly better price (higher for bids, lower for asks).
C35_StrictBest ==
  \A a \in Book(gameState) : \A b \in Book(gameState) :
    (a.side = b.side /\ a # b) =>
       /\ a.price # b.price
       /\ a.id # b.id
       /\ a.id < b.id => Better(b, a)

\* two orders of different participants rest on the same side, the later one
\* priced better
C35_Witness ==
  \E a \in Book(gameState) : \E b \in Book(gameState) :
    a.side = b.side /\ a.id < b.id /\ Better(b, a) /\ a.player # b.player

\* the cash of a position entry, a missing cash field counting as 0
CashOf(pos) == IF "cash" \in DOMAIN pos THEN pos.cash ELSE 0

\* C36: for every participant in every reachable state, before and after
\* settlement, cash + totalCost = realizedPnL.
C36_CashIdentity ==
  \A n \in DOMAIN gameState.positions :
    RatAdd(R(CashOf(gameState.positions[n])), gameState.positions[n].totalCost)
      = gameState.positions[n].realizedPnL

\* the game has been settled and a participant who realised P&L by trading
\* before the settlement, and more by it, holds cash
C36_Witness ==
  /\ req = [op |-> "settle", auth |-> TRUE] /\ resp.code = 200
  /\ Len(gameState.trades) >= 2
  /\ \E n \in DOMAIN gameState.positions :
       /\ gameState.positions[n].realizedPnL # R(0)
       /\ gameState.positions[n].totalCost = R(0)
       /\ CashOf(gameState.positions[n]) # 0
       /\ gameState.trades[1].price # gameState.trades[2].price

RECURSIVE SumCash(_, _)
SumCash(positions, names) ==
  IF names = {} THEN 0
  ELSE LET n == CHOOSE n \in names : TRUE
       IN CashOf(positions[n]) + SumCash(positions, names \ {n})

\* C37: in every reachable state, before and after settlement, the cash of all
\* position entries sums to 0.
C37_CashZeroSum ==
  SumCash(gameState.positions, DOMAIN gameState.positions) = 0

\* the game has just been settled: a participant who only ever bought, at two
\* different prices, holds positive cash, all of it paid by the settlement
C37_Witness ==
  /\ req = [op |-> "settle", auth |-> TRUE] /\ resp.code = 200
  /\ Len(gameState.trades) >= 2
  /\ gameState.trades[1].price # gameState.trades[2].price
  /\ \E n \in DOMAIN gameState.positions :
       /\ CashOf(gameState.positions[n]) > 0
       /\ \A k \in 1..Len(gameState.trades) :
            gameState.trades[k].buyer = n /\ gameState.trades[k].seller # n

TurnConsumed ==
  /\ Served /\ turnActive(gameState) /\ resp'.code = 200
  /\ \/ req'.op = "submitOrder"
     \/ req'.op = "cancelOrders" /\ Len(gameState'.orders) < Len(gameState.orders)

\* the participants named in the turn order
InTurnOrder(g) == {g.turnOrder[i] : i \in DOMAIN g.turnOrder}

\* C39: while turn mode is active and only the participants act (from version
\* RoundFrom on), every turn-consuming action is taken at a position of the
\* turn order and passes the turn to the next position, cyclically, leaving the
\* turn order as it is (so n of them in a row visit every position once and
\* come back); and if the current participant places an accepted order again
\* and again, every participant in the turn order eventually becomes the
\* current participant (or the session has reached the last version explored).
C39_RoundRobin ==
  /\ [][TurnConsumed =>
          /\ gameState.currentTurnIndex \in 0..(Len(gameState.turnOrder) - 1)
          /\ gameState'.turnOrder = gameState.turnOrder
          /\ gameState'.currentTurnIndex
               = (gameState.currentTurnIndex + 1) % Len(gameState.turnOrder)]_vars
  /\ \A n \in Names :
       [](version >= RoundFrom /\ turnActive(gameState) /\ n \in InTurnOrder(gameState)
            => <>(currentPlayer(gameState) = n \/ version = RoundMaxVersion))

\* the same round-robin passing from the states where currentTurnIndex is a
\* position of the turn order
C39_RoundRobinInRange ==
  \A n \in Names :
    [](version >= RoundFrom /\ turnActive(gameState) /\ n \in InTurnOrder(gameState)
       /\ gameState.currentTurnIndex < Len(gameState.turnOrder)
         => <>(currentPlayer(gameState) = n \/ version = RoundMaxVersion))

\* the trades the step executed, in order
NewTrades == SubSeq(gameState'.trades, Len(gameState.trades) + 1, Len(gameState'.trades))

\* a trade in which n is both the buyer and the seller
SelfTrade(t, n) == t.buyer = n /\ t.seller = n

RECURSIVE NetBought(_, _)
\* what n bought less what n sold in the trades with another participant
NetBought(trades, n) ==
  IF trades = <<>> THEN 0
  ELSE LET t == Head(trades)
       IN (IF SelfTrade(t, n) THEN 0
           ELSE IF t.buyer = n THEN t.size
           ELSE IF t.seller = n THEN -t.size ELSE 0)
          + NetBought(Tail(trades), n)

RECURSIVE NetPaid(_, _)
\* what n paid less what n received in the trades with another participant
NetPaid(trades, n) ==
  IF trades = <<>> THEN 0
  ELSE LET t == Head(trades)
       IN (IF SelfTrade(t, n) THEN 0
           ELSE IF t.buyer = n THEN t.size * t.price
           ELSE IF t.seller = n THEN -(t.size * t.price) ELSE 0)
          + NetPaid(Tail(trades), n)

\* C40: when an incoming order matches a resting order of the same participant
\* (buyer = seller in the trade), that trade leaves the participant's quantity
\* and cash as they were: over the submitOrder step the quantity and the cash
\* change by the trades with other participants only, and not at all if there
\* are none.
C40_SelfTrade ==
  [][Executed =>
       \A n \in Names :
         (\E k \in DOMAIN NewTrades : SelfTrade(NewTrades[k], n)) =>
            /\ Held(gameState', n).quantity
                 = Held(gameState, n).quantity + NetBought(NewTrades, n)
            /\ Held(gameState', n).cash
                 = Held(gameState, n).cash - NetPaid(NewTrades, n)]_vars

\* a participant holding contracts and cash has just traded with themselves
\* and with nobody else: a third trade is in the log with them on both sides
C40_Witness ==
  /\ req # NoReq /\ req.op = "submitOrder" /\ resp.code = 200
  /\ Len(gameState.trades) = 2
  /\ SelfTrade(gameState.trades[2], req.playerName)
  /\ ~SelfTrade(gameState.trades[1], req.playerName)
  /\ Len(resp.body.trades) = 1
  /\ Held(gameState, req.playerName).quantity # 0
  /\ Held(gameState, req.playerName).cash # 0

====
